---- MODULE Spec2Model ----
(***************************************************************************)
(* A model of KTTS72 (kokoro_announce): path safety and input validation   *)
(* (validation.py), the audio writer (audio.py), the lazy pipeline factory *)
(* (pipeline.py, local_models.py) and the announcer (announcer.py).        *)
(*                                                                         *)
(* Encodings.                                                              *)
(*  - A file name is a sequence of pieces, "." being a piece of its own:   *)
(*    out.WAV is <<"out", ".", "WAV">>, the parent link .. is <<".",".">>. *)
(*  - A path is [abs, parts]: parts is a sequence of file names, abs tells *)
(*    whether it starts at the root.  A canonical (resolved) path is the   *)
(*    sequence of names from the root.                                     *)
(*  - A text is a sequence of runs [ws, n]: n characters, whitespace or    *)
(*    not, so that texts of 100000 characters stay small values.           *)
(*  - A speed is a number of hundredths: 0.25 is 25, 4.0 is 400.           *)
(*  - An optional argument is a set: {} is None, {v} is the value v.       *)
(***************************************************************************)
EXTENDS Integers, Sequences, FiniteSets, TLC

\* ------------------------------------------------------------------ bounds
\* Longest path (in names) handed to the path validators.
MaxPathLen == 3
\* Most pipeline objects constructed in one behaviour.
MaxIds == 3
\* Most runs of _create_pipeline between two reset() calls.
MaxBuilds == 3
\* Most bytes of diagnostic output the encoder prints.
MaxStderr == 2
\* Greatest max_retries handed to safe_hf_download.
MaxRetries == 3

\* ------------------------------------------------------- program constants
\* validation.py:16-22 (speeds in hundredths)
MIN_SPEED == 25
MAX_SPEED == 400
MAX_TEXT_LENGTH == 100000
MAX_TEXT_FILE_SIZE == 10 * 1024 * 1024
\* A device string is a sequence of pieces, ":" and a blank being pieces.
VALID_DEVICES ==
    {<<"cpu">>, <<"cuda">>, <<"mps">>} \cup {<<"cuda", ":", d>> : d \in {"0", "1", "2", "3"}}
VALID_OUTPUT_FORMATS == {"wav", "mp3"}
VALID_SAMPLE_RATES == {8000, 16000, 22050, 24000, 44100, 48000}
\* config.py:27-28
DEFAULT_SAMPLE_RATE == 24000
DEFAULT_SPEED == 100
\* local_models.py:100, the default of max_retries
DEFAULT_MAX_RETRIES == 3

\* ------------------------------------------------------------- file names
DotDot == <<".", ".">>
Dir(s) == <<s>>
FileName(stem, ext) == <<stem, ".", ext>>

\* str.lower() on the pieces the model uses.
Lower(s) ==
    CASE s = "WAV" -> "wav"
      [] s = "Wav" -> "wav"
      [] s = "MP3" -> "mp3"
      [] s = "Mp3" -> "mp3"
      [] s = "TXT" -> "txt"
      [] s = "CPU" -> "cpu"
      [] s = "Cpu" -> "cpu"
      [] s = "CUDA" -> "cuda"
      [] s = "Cuda" -> "cuda"
      [] s = "MPS" -> "mps"
      [] s = "PIP" -> "pip"
      [] s = "Install" -> "install"
      [] OTHER -> s

\* The greatest index of a "." piece in a name, 0 when there is none
\* (str.rfind, 1-based).
RFindDot(name) ==
    LET dots == {i \in 1..Len(name) : name[i] = "."}
    IN  IF dots = {} THEN 0 ELSE CHOOSE i \in dots : \A j \in dots : j <= i

\* PurePath.suffix: the last "." and what follows it, unless that "." begins
\* or ends the name; the empty sequence stands for the empty string.
Suffix(name) ==
    LET i == RFindDot(name)
    IN  IF 1 < i /\ i < Len(name) THEN SubSeq(name, i, Len(name)) ELSE <<>>

\* str.lstrip('.'): drop the leading "." pieces.
RECURSIVE LStripDots(_)
LStripDots(s) ==
    IF s # <<>> /\ Head(s) = "." THEN LStripDots(Tail(s)) ELSE s

\* The extension as a lowered string: "" for no extension.  A name's pieces
\* after its last "." are one piece in this model.
ExtLower(ext) == IF ext = <<>> THEN "" ELSE Lower(ext[1])

\* ------------------------------------------------------------ file system
\* Fixed places of the process (canonical or not, as the OS reports them).
HomeDir == <<Dir("home"), Dir("u")>>
TempDir == <<Dir("tmp")>>
MEIPASS == <<Dir("opt"), Dir("app")>>

\* Symbolic links of the machine: /tmp is a link to /private/tmp.
SymlinkFrom == <<Dir("tmp")>>
SymlinkTo == <<Dir("private"), Dir("tmp")>>
IsSymlink(p) == p = SymlinkFrom
ReadLink(p) == SymlinkTo

Parent(p) == IF p = <<>> THEN <<>> ELSE SubSeq(p, 1, Len(p) - 1)
IsPrefix(base, p) ==
    Len(base) <= Len(p) /\ SubSeq(p, 1, Len(base)) = base

\* --------------------------------------------------------------- state
VARIABLES
    cwd,        \* os.getcwd(): a canonical path
    frozen,     \* sys.frozen and sys._MEIPASS are set (a PyInstaller bundle)
    dirs,       \* the directories that exist (canonical paths)
    files,      \* the regular files that exist: [path, kind]
    temps,      \* the temporary WAV files that exist (their numbers)
    modelFiles, \* the local model artifacts that exist
    pipeline,   \* PipelineFactory._pipeline
    nextId,     \* the identity the next constructed pipeline object gets
    builds,     \* _create_pipeline runs since the last reset()
    okBuilds,   \* _create_pipeline runs that returned since the last reset()
    first,      \* what the first successful get() since the last reset() returned
    settings,   \* KokoroSettings of the announcer: [speed, sample_rate]
    prev,       \* the path-safety call before the last one
    argv,       \* sys.argv and the list objects it may refer to
    threads,    \* the threads inside PipelineFactory.get(): [pc, built, ret]
    last        \* the last call: its arguments, its outcome, what it did

vars == <<cwd, frozen, dirs, files, temps, modelFiles, pipeline, nextId,
          builds, okBuilds, first, settings, prev, argv, threads, last>>

FilePaths == {f.path : f \in files}
Exists(p) == p \in dirs \/ p \in FilePaths

\* os.path.realpath (Path.resolve, not strict): names are taken one by one
\* from the start; ".." drops the last name, a symbolic link is replaced by
\* its target, a name that does not exist is appended as it is.
RECURSIVE RealPath(_, _)
RealPath(cur, rest) ==
    IF rest = <<>> THEN cur
    ELSE LET h == Head(rest)
             nxt == Append(cur, h)
         IN  IF h = DotDot THEN RealPath(Parent(cur), Tail(rest))
             ELSE IF IsSymlink(nxt) THEN RealPath(ReadLink(nxt), Tail(rest))
             ELSE RealPath(nxt, Tail(rest))

\* Path.resolve(): a relative path starts at the current working directory.
Resolve(path) == RealPath(IF path.abs THEN <<>> ELSE cwd, path.parts)

\* A canonical path as a Path value.
AbsPath(p) == [abs |-> TRUE, parts |-> p]

\* The walk the OS makes for stat(): every name on the way must exist, and
\* all but the last must be directories.  Missing stands for "no such file".
Missing == <<Dir("?")>>
RECURSIVE OsWalk(_, _)
OsWalk(cur, rest) ==
    IF ~Exists(cur) THEN Missing
    ELSE IF rest = <<>> THEN cur
    ELSE IF cur \notin dirs THEN Missing
    ELSE LET h == Head(rest)
             nxt == Append(cur, h)
         IN  IF h = DotDot THEN OsWalk(Parent(cur), Tail(rest))
             ELSE IF IsSymlink(nxt) THEN OsWalk(ReadLink(nxt), Tail(rest))
             ELSE OsWalk(nxt, Tail(rest))

\* Path.exists()
PathExists(path) ==
    OsWalk(IF path.abs THEN <<>> ELSE cwd, path.parts) # Missing

\* Path.parent and Path.name (lexical)
PathParent(path) == [path EXCEPT !.parts = Parent(path.parts)]
PathName(path) ==
    IF path.parts = <<>> THEN <<>> ELSE <<path.parts[Len(path.parts)]>>

\* ---------------------------------------------------------- validation.py
\* The outcome of a validator: the value it returns, or the error it raises.
Ok(v) == [ok |-> TRUE, v |-> v, err |-> ""]
Raise(kind, v) == [ok |-> FALSE, v |-> v, err |-> kind]

\* (mutant) get_safe_base_paths that leaves the bases as the OS names them.
get_safe_base_paths_unresolved ==
    <<cwd, HomeDir, TempDir>> \o (IF frozen THEN <<MEIPASS>> ELSE <<>>)

\* (mutant) get_safe_base_paths with the working directory the process
\* was started in (the home directory), decided once.
get_safe_base_paths_at_startup ==
    LET safe_paths == <<AbsPath(HomeDir), AbsPath(HomeDir), AbsPath(TempDir)>>
                      \o (IF frozen THEN <<AbsPath(MEIPASS)>> ELSE <<>>)
    IN  [i \in 1..Len(safe_paths) |-> Resolve(safe_paths[i])]

\* get_safe_base_paths(): cwd, home, temp, and the bundle directory when
\* frozen, each resolved, computed at every call.
get_safe_base_paths ==
    LET safe_paths == <<AbsPath(cwd), AbsPath(HomeDir), AbsPath(TempDir)>>
                      \o (IF frozen THEN <<AbsPath(MEIPASS)>> ELSE <<>>)
    IN  [i \in 1..Len(safe_paths) |-> Resolve(safe_paths[i])]

\* is_path_safe(path, allow_creation)
is_path_safe(path, allow_creation) ==
    LET resolved ==
            IF PathExists(path) THEN Resolve(path)
            ELSE IF allow_creation /\ PathExists(PathParent(path))
                 THEN Resolve(PathParent(path)) \o PathName(path)
            ELSE Resolve(path)
        safe_bases == get_safe_base_paths
    IN  \E i \in 1..Len(safe_bases) : IsPrefix(safe_bases[i], resolved)

\* validate_output_path(path): the resolved path, or a ValidationError.
validate_output_path(path) ==
    LET resolved == Resolve(path)
    IN  IF ~is_path_safe(AbsPath(resolved), TRUE)
        THEN Raise("ValidationError", resolved)
        ELSE Ok(resolved)

\* str.strip() on a text: the whitespace runs at both ends go.
RECURSIVE LStrip(_)
LStrip(runs) ==
    IF runs # <<>> /\ Head(runs).ws THEN LStrip(Tail(runs)) ELSE runs
RECURSIVE RStrip(_)
RStrip(runs) ==
    IF runs # <<>> /\ runs[Len(runs)].ws
    THEN RStrip(SubSeq(runs, 1, Len(runs) - 1)) ELSE runs
Strip(runs) == RStrip(LStrip(runs))

\* len() of a text
RECURSIVE TextLen(_)
TextLen(runs) == IF runs = <<>> THEN 0 ELSE Head(runs).n + TextLen(Tail(runs))

\* (mutant) validate_text that tests the text as given, without trimming it.
validate_text_nostrip(text) ==
    IF ~text.isStr THEN Raise("ValidationError", <<>>)
    ELSE IF text.runs = <<>> THEN Raise("ValidationError", <<>>)
    ELSE IF TextLen(text.runs) > MAX_TEXT_LENGTH
         THEN Raise("ValidationError", <<>>)
    ELSE Ok(text.runs)

\* (mutant) validate_text that measures the text before trimming it.
validate_text_length_first(text) ==
    IF ~text.isStr THEN Raise("ValidationError", <<>>)
    ELSE IF TextLen(text.runs) > MAX_TEXT_LENGTH
         THEN Raise("ValidationError", <<>>)
    ELSE IF Strip(text.runs) = <<>> THEN Raise("ValidationError", <<>>)
    ELSE Ok(Strip(text.runs))

\* validate_text(text): text is [isStr, runs].
validate_text(text) ==
    IF ~text.isStr THEN Raise("ValidationError", <<>>)
    ELSE LET stripped == Strip(text.runs)
         IN  IF stripped = <<>> THEN Raise("ValidationError", <<>>)
             ELSE IF TextLen(stripped) > MAX_TEXT_LENGTH
                  THEN Raise("ValidationError", <<>>)
             ELSE Ok(stripped)

\* (mutant) validate_speed with the upper bound left out of the range.
validate_speed_open(speed) ==
    IF ~speed.num THEN Raise("ValidationError", 0)
    ELSE IF ~speed.nan /\ (speed.v < MIN_SPEED \/ speed.v >= MAX_SPEED)
         THEN Raise("ValidationError", 0)
    ELSE Ok([speed EXCEPT !.float = TRUE])

\* validate_speed(speed): speed is [num, float, nan, v]: an int or a float
\* (num), a float (float), NaN (nan), else the value v in hundredths.  Every
\* comparison with NaN is false, so NaN passes the range test.  float(speed)
\* keeps the value and makes it a float.
validate_speed(speed) ==
    IF ~speed.num THEN Raise("ValidationError", 0)
    ELSE IF ~speed.nan /\ (speed.v < MIN_SPEED \/ speed.v > MAX_SPEED)
         THEN Raise("ValidationError", 0)
    ELSE Ok([speed EXCEPT !.float = TRUE])

\* (mutant) validate_sample_rate that takes any rate within the range.
validate_sample_rate_range(sample_rate) ==
    IF sample_rate < 8000 \/ sample_rate > 48000
    THEN Raise("ValidationError", sample_rate)
    ELSE Ok(sample_rate)

\* validate_sample_rate(sample_rate)
validate_sample_rate(sample_rate) ==
    IF sample_rate \notin VALID_SAMPLE_RATES
    THEN Raise("ValidationError", sample_rate)
    ELSE Ok(sample_rate)

\* str.lower() and str.strip() on a string of pieces: every piece is
\* lowered; the blank pieces at both ends go.
LowerPieces(s) == [i \in 1..Len(s) |-> Lower(s[i])]
RECURSIVE LStripPieces(_)
LStripPieces(s) ==
    IF s # <<>> /\ Head(s) = " " THEN LStripPieces(Tail(s)) ELSE s
RECURSIVE RStripPieces(_)
RStripPieces(s) ==
    IF s # <<>> /\ s[Len(s)] = " "
    THEN RStripPieces(SubSeq(s, 1, Len(s) - 1)) ELSE s

\* (mutant) validate_device that does not trim.
validate_device_notrim(device) ==
    IF device = {} THEN Ok({})
    ELSE LET d == LowerPieces(CHOOSE x \in device : TRUE)
         IN  IF d \notin VALID_DEVICES THEN Raise("ValidationError", {d})
             ELSE Ok({d})

\* validate_device(device): device is {} (None) or {s}.
validate_device(device) ==
    IF device = {} THEN Ok({})
    ELSE LET d == RStripPieces(LStripPieces(
                      LowerPieces(CHOOSE x \in device : TRUE)))
         IN  IF d \notin VALID_DEVICES THEN Raise("ValidationError", {d})
             ELSE Ok({d})

\* Path.is_file() and Path.stat().st_size, links followed.
IsFile(path) ==
    OsWalk(IF path.abs THEN <<>> ELSE cwd, path.parts) \in FilePaths
StSize(path) ==
    LET p == OsWalk(IF path.abs THEN <<>> ELSE cwd, path.parts)
        f == CHOOSE f \in files : f.path = p
    IN  IF "size" \in DOMAIN f THEN f.size ELSE 0

\* (mutant) validate_input_path that tests the size before the place.
validate_input_path_size_first(path) ==
    IF ~PathExists(path) THEN Raise("ValidationError", "file not found")
    ELSE IF ~IsFile(path) THEN Raise("ValidationError", "path is not a file")
    ELSE IF StSize(path) > MAX_TEXT_FILE_SIZE
         THEN Raise("ValidationError", "file too large")
    ELSE IF ~is_path_safe(path, FALSE)
         THEN Raise("ValidationError", "path is outside allowed directories")
    ELSE Ok(Resolve(path))

\* validate_input_path(path, purpose): the resolved path, or a
\* ValidationError whose v is what its message says.
validate_input_path(path) ==
    IF ~PathExists(path) THEN Raise("ValidationError", "file not found")
    ELSE IF ~IsFile(path) THEN Raise("ValidationError", "path is not a file")
    ELSE IF ~is_path_safe(path, FALSE)
         THEN Raise("ValidationError", "path is outside allowed directories")
    ELSE IF StSize(path) > MAX_TEXT_FILE_SIZE
         THEN Raise("ValidationError", "file too large")
    ELSE Ok(Resolve(path))

\* str.lower().strip() on the format strings the model uses.
StripStr(s) == IF s = " mp3 " THEN "mp3" ELSE s

\* validate_output_format(fmt)
validate_output_format(fmt) ==
    LET f == StripStr(Lower(fmt))
    IN  IF f \notin VALID_OUTPUT_FORMATS THEN Raise("ValidationError", f)
        ELSE Ok(f)

\* ------------------------------------------- patches.py, app.py: argv
\* A command is a list of words, a word a sequence of pieces.  str(cmd) is
\* the text of the list: the pieces of all its words.
RECURSIVE CmdText(_)
CmdText(cmd) == IF cmd = <<>> THEN <<>> ELSE Head(cmd) \o CmdText(Tail(cmd))
\* `w in text` for a word the model keeps in one piece.
HasPiece(text, w) == \E i \in 1..Len(text) : text[i] = w

\* patches.py 43-50: 'pip' in cmd_str and 'install' in cmd_str, cmd_str
\* being str(cmd).lower().
patches_blocks(cmd) ==
    /\ cmd # <<>>
    /\ HasPiece(LowerPieces(CmdText(cmd)), "pip")
    /\ HasPiece(LowerPieces(CmdText(cmd)), "install")

\* app.py 103-106: 'pip' in str(cmd) or 'install' in str(cmd).
app_blocks(cmd) ==
    /\ cmd # <<>>
    /\ HasPiece(CmdText(cmd), "pip") \/ HasPiece(CmdText(cmd), "install")

\* Which patch of subprocess.run is installed: that of patches.py
\* (protect_argv), that of app.py, or none.
run_blocks(patch, cmd) ==
    CASE patch = "patches" -> patches_blocks(cmd)
      [] patch = "app" -> app_blocks(cmd)
      [] OTHER -> FALSE

\* sys.argv = _original_argv: sys.argv refers to that very list from now.
restore_argv(a) == [a EXCEPT !.sys = "copy"]

\* _patched_run(cmd): [ran, returncode, argv]; rc is what the real command
\* exits with, a the lists of sys.argv.
patched_run(patch, cmd, rc, a) ==
    IF run_blocks(patch, cmd)
    THEN [ran |-> FALSE, returncode |-> 0, argv |-> a]
    ELSE [ran |-> TRUE, returncode |-> rc, argv |-> restore_argv(a)]

Word(s) == <<s>>
\* The command _write_mp3_ffmpeg runs for a temporary file and an output
\* file, each the pieces of its path (audio.py 109-117).
EncodeCmd(tmp, out) ==
    <<Word("ffmpeg"), Word("-y"), Word("-i"), tmp, Word("-b:a"), Word("192k"),
      Word("-q:a"), Word("2"), out>>
\* str(path) of a canonical path: the pieces of its names, "/" between.
RECURSIVE PathText(_)
PathText(p) ==
    IF p = <<>> THEN <<>> ELSE <<"/">> \o Head(p) \o PathText(Tail(p))
\* The name NamedTemporaryFile(suffix=".wav") gives when nothing
\* remarkable is in its random part.
PlainTmp == <<"/tmp/tmp", "a1b2c3d4", ".wav">>

\* --------------------------------------------------------------- audio.py
\* The writers work on a file-system value fs = [dirs, files, temps] and give
\* back [ok, err, msg, ret, fs, trace]: the path returned or the error
\* raised, the file system they leave, and the steps they took in order.
\* env is what the surroundings answer during the call:
\*   dl      what safe_hf_download and the copy answer for each artifact
\*   buildOk the engine's constructors return
\*   inferOk the engine's inference returns; segs is what it yields
\*   sfOk    soundfile.write succeeds
\*   probe   the outcome of `ffmpeg -version`
\*   pydub   the fallback library: "absent" (ImportError), "ok", "fails"
\*   tmpOk   NamedTemporaryFile can create its file
\*   enc     the outcome of the ffmpeg encode run
\*   stderr  the bytes ffmpeg printed on its error stream
NoMsg == [text |-> "", diag |-> <<>>]
Done(path, fs, trace) ==
    [ok |-> TRUE, err |-> "", msg |-> NoMsg, ret |-> path, fs |-> fs,
     trace |-> trace]
Fail(kind, msg, fs, trace) ==
    [ok |-> FALSE, err |-> kind, msg |-> msg, ret |-> <<>>, fs |-> fs,
     trace |-> trace]

Prefixes(p) == {SubSeq(p, 1, i) : i \in 0..Len(p)}

\* Path.mkdir(parents=True, exist_ok=True): FileExistsError (an OSError)
\* when a regular file is in the way.
MkdirBlocked(fs, d) == \E q \in Prefixes(d) : q \in {f.path : f \in fs.files}
Mkdir(fs, d) == [fs EXCEPT !.dirs = @ \cup Prefixes(d)]

\* A regular file written at path, replacing what was there; its kind is the
\* writer it comes from ("soundfile", "ffmpeg", "pydub").
PutFile(fs, path, kind) ==
    [fs EXCEPT !.files = {f \in @ : f.path # path}
                         \cup {[path |-> path, kind |-> kind]}]

\* soundfile.write can write at path: the library works, the parent is a
\* directory and path is not one.
CanWrite(fs, path, env) ==
    env.sfOk /\ Parent(path) \in fs.dirs /\ path \notin fs.dirs

\* write_wav(audio, path, sample_rate)
write_wav(path, fs, env) ==
    IF MkdirBlocked(fs, Parent(path))
    THEN Fail("OSError", NoMsg, fs, <<"mkdir">>)
    ELSE LET fs1 == Mkdir(fs, Parent(path))
         IN  IF ~CanWrite(fs1, path, env)
             THEN Fail("LibsndfileError", NoMsg, fs1, <<"mkdir", "sf.write">>)
             ELSE Done(path, PutFile(fs1, path, "soundfile"), <<"mkdir", "sf.write">>)

\* _has_ffmpeg(): true only when `ffmpeg -version` ran and returned 0; a
\* timeout, a missing binary or another OSError gives false.
has_ffmpeg(env) == env.probe = "rc0"

\* bytes.decode(): UTF-8.  A byte below 128 is that character; a byte from
\* 248 up is valid nowhere in UTF-8 (UnicodeDecodeError).
DecodeFails(bytes) == \E i \in 1..Len(bytes) : bytes[i] >= 248
Decode(bytes) == [i \in 1..Len(bytes) |-> [char |-> bytes[i]]]

\* The try block of _write_mp3_ffmpeg, the temporary file tmp being there.
\* subprocess.run is the patched one when env.patch says so: a blocked
\* command comes back with returncode 0 and nothing has run.
ffmpeg_try(path, tmp, fs, env, trace) ==
    IF ~env.sfOk
    THEN Fail("LibsndfileError", NoMsg, fs, trace \o <<"sf.write tmp">>)
    ELSE IF run_blocks(env.patch, EncodeCmd(env.tmpText, PathText(path)))
    THEN Done(path, fs, trace \o <<"sf.write tmp", "ffmpeg blocked">>)
    ELSE LET t2 == trace \o <<"sf.write tmp", "ffmpeg">>
         IN  CASE env.enc = "timeout" -> Fail("TimeoutExpired", NoMsg, fs, t2)
               [] env.enc = "notfound" -> Fail("FileNotFoundError", NoMsg, fs, t2)
               [] env.enc = "rc1" ->
                    IF DecodeFails(env.stderr)
                    THEN Fail("UnicodeDecodeError", NoMsg, fs, t2)
                    ELSE Fail("RuntimeError",
                              [text |-> "ffmpeg failed: ",
                               diag |-> Decode(env.stderr)], fs, t2)
               [] OTHER -> Done(path, PutFile(fs, path, "ffmpeg"), t2)

\* (mutant) cleanup after the happy path only.
ffmpeg_finally_on_success(r, tmp) ==
    IF r.ok
    THEN [r EXCEPT !.fs.temps = @ \ {tmp}, !.trace = @ \o <<"unlink tmp">>]
    ELSE r

\* The finally block of _write_mp3_ffmpeg: tmp_path.unlink(), an OSError
\* (the file is not there) being passed over.
ffmpeg_finally(r, tmp) ==
    [r EXCEPT !.fs.temps = @ \ {tmp}, !.trace = @ \o <<"unlink tmp">>]

\* The name NamedTemporaryFile picks: one no temporary file has.
FreshTemp(fs) == CHOOSE n \in 1..(Cardinality(fs.temps) + 1) : n \notin fs.temps

\* _write_mp3_ffmpeg(audio, path, sample_rate, bitrate)
write_mp3_ffmpeg(path, fs, env, trace) ==
    IF ~env.tmpOk THEN Fail("OSError", NoMsg, fs, trace \o <<"mktemp">>)
    ELSE LET tmp == FreshTemp(fs)
             fs1 == [fs EXCEPT !.temps = @ \cup {tmp}]
         IN  ffmpeg_finally(
                 ffmpeg_try(path, tmp, fs1, env, trace \o <<"mktemp">>), tmp)

\* _write_mp3_pydub(audio, path, sample_rate, bitrate)
write_mp3_pydub(path, fs, env, trace) ==
    CASE env.pydub = "absent" ->
            Fail("ImportError", NoMsg, fs, trace \o <<"import pydub">>)
      [] env.pydub = "fails" ->
            Fail("CouldntEncodeError", NoMsg, fs,
                 trace \o <<"import pydub", "export">>)
      [] OTHER ->
            Done(path, PutFile(fs, path, "pydub"),
                 trace \o <<"import pydub", "export">>)

\* (mutant) write_mp3 that writes a WAV when nothing can encode MP3.
write_mp3_wav_fallback(path, fs, env) ==
    IF MkdirBlocked(fs, Parent(path))
    THEN Fail("OSError", NoMsg, fs, <<"mkdir">>)
    ELSE LET fs1 == Mkdir(fs, Parent(path))
             t1 == <<"mkdir", "probe">>
         IN  IF has_ffmpeg(env) THEN write_mp3_ffmpeg(path, fs1, env, t1)
             ELSE LET r == write_mp3_pydub(path, fs1, env, t1)
                  IN  IF r.err = "ImportError"
                      THEN Done(path, PutFile(r.fs, path, "soundfile"),
                                r.trace \o <<"sf.write">>)
                      ELSE r

\* (mutant) write_mp3 that turns to the fallback library when the encoder
\* was found and then failed.
write_mp3_second_try(path, fs, env) ==
    IF MkdirBlocked(fs, Parent(path))
    THEN Fail("OSError", NoMsg, fs, <<"mkdir">>)
    ELSE LET fs1 == Mkdir(fs, Parent(path))
             t1 == <<"mkdir", "probe">>
             e == write_mp3_ffmpeg(path, fs1, env, t1)
         IN  IF has_ffmpeg(env) /\ e.ok THEN e
             ELSE LET r == write_mp3_pydub(path, e.fs, env, e.trace)
                  IN  IF r.err = "ImportError"
                      THEN Fail("RuntimeError",
                                [text |-> "MP3 encoding requires ffmpeg",
                                 diag |-> <<>>], r.fs, r.trace)
                      ELSE r

\* write_mp3(audio, path, sample_rate, bitrate)
write_mp3(path, fs, env) ==
    IF MkdirBlocked(fs, Parent(path))
    THEN Fail("OSError", NoMsg, fs, <<"mkdir">>)
    ELSE LET fs1 == Mkdir(fs, Parent(path))
             t1 == <<"mkdir", "probe">>
         IN  IF has_ffmpeg(env) THEN write_mp3_ffmpeg(path, fs1, env, t1)
             ELSE LET r == write_mp3_pydub(path, fs1, env, t1)
                  IN  IF r.err = "ImportError"
                      THEN Fail("RuntimeError",
                                [text |-> "MP3 encoding requires ffmpeg",
                                 diag |-> <<>>], r.fs, r.trace)
                      ELSE r

\* (mutant) write_audio that compares the extension as it is written.
write_audio_case_sensitive(path, format, fs, env) ==
    LET name == IF path = <<>> THEN <<>> ELSE path[Len(path)]
        ext == LStripDots(Suffix(name))
        fmt == IF format = {}
               THEN (IF ext = <<>> THEN "" ELSE ext[1])
               ELSE CHOOSE f \in format : TRUE
    IN  IF fmt = "wav" THEN write_wav(path, fs, env)
        ELSE IF fmt = "mp3" THEN write_mp3(path, fs, env)
        ELSE Fail("ValueError",
                  [text |-> "Unknown audio format", diag |-> <<>>], fs, <<>>)

\* write_audio(audio, path, sample_rate, format): format is {} (None) or
\* {f}; path is canonical.
write_audio(path, format, fs, env) ==
    LET name == IF path = <<>> THEN <<>> ELSE path[Len(path)]
        fmt == IF format = {}
               THEN ExtLower(LStripDots(Suffix(name)))
               ELSE CHOOSE f \in format : TRUE
    IN  IF fmt = "wav" THEN write_wav(path, fs, env)
        ELSE IF fmt = "mp3" THEN write_mp3(path, fs, env)
        ELSE Fail("ValueError",
                  [text |-> "Unknown audio format", diag |-> <<>>], fs, <<>>)

\* -------------------------------------------- local_models.py, pipeline.py
\* The artifacts models_exist() requires, in the order download_models()
\* fetches them.
RequiredFiles == <<"config", "model", "af_heart">>

\* models_exist(): every required file is there.
models_exist(mf) == \A i \in 1..Len(RequiredFiles) : RequiredFiles[i] \in mf

\* What safe_hf_download gives: the result of the attempt ret (1-based) that
\* succeeded, or the error of the attempt errAt, raised; ret = 0 with ok is
\* the `return None` after the loop.  calls counts the calls of
\* hf_hub_download, slept the seconds of time.sleep.
HfReturn(ret, calls, slept) ==
    [ok |-> TRUE, ret |-> ret, err |-> "", errAt |-> 0, calls |-> calls,
     slept |-> slept]
HfRaise(err, errAt, calls, slept) ==
    [ok |-> FALSE, ret |-> 0, err |-> err, errAt |-> errAt, calls |-> calls,
     slept |-> slept]

\* The loop of safe_hf_download from the 0-based attempt on: outcomes[k] is
\* what the k-th call of hf_hub_download does, "ok" or the exception it
\* raises ("SSLError": its text holds SSL or CERTIFICATE; "ConnectionError":
\* any other).
RECURSIVE hf_loop(_, _, _, _)
hf_loop(outcomes, max_retries, attempt, slept) ==
    IF attempt >= max_retries THEN HfReturn(0, attempt, slept)
    ELSE LET s1 == slept + (IF attempt > 0 THEN 2 ELSE 0)
             o == outcomes[attempt + 1]
         IN  IF o = "ok" THEN HfReturn(attempt + 1, attempt + 1, s1)
             ELSE IF attempt = max_retries - 1
                  THEN HfRaise(o, attempt + 1, attempt + 1, s1)
             ELSE hf_loop(outcomes, max_retries, attempt + 1, s1 + 1)

\* (mutant) safe_hf_download that gives up quietly after the last attempt.
safe_hf_download_quiet(outcomes, max_retries) ==
    LET r == hf_loop(outcomes, max_retries, 0, 0)
    IN  IF r.ok THEN r ELSE HfReturn(0, r.calls, r.slept)

\* safe_hf_download(repo_id, filename, max_retries)
safe_hf_download(outcomes, max_retries) ==
    hf_loop(outcomes, max_retries, 0, 0)

\* The loop of download_models(): file after file is fetched (dl[i] is what
\* the attempts for the i-th file do) and copied; the first fetch that raises
\* ends it, what was copied before stays.  The copy of a file just fetched
\* is taken to succeed.
RECURSIVE download_loop(_, _, _)
RECURSIVE download_step(_, _, _, _)
download_step(mf, dl, i, h) ==
    IF ~h.ok THEN [ok |-> FALSE, mf |-> mf, err |-> h.err]
    ELSE download_loop(mf \cup {RequiredFiles[i]}, dl, i + 1)
download_loop(mf, dl, i) ==
    IF i > Len(RequiredFiles) THEN [ok |-> TRUE, mf |-> mf, err |-> ""]
    ELSE download_step(mf, dl, i, safe_hf_download(dl[i], DEFAULT_MAX_RETRIES))

\* download_models(): [ok, mf, fetch, err]; every exception is caught,
\* printed and turned into False: err is the exception that was caught.
download_result(r) ==
    [ok |-> r.ok, mf |-> r.mf, fetch |-> TRUE, err |-> r.err]
download_models(mf, dl) ==
    IF models_exist(mf)
    THEN [ok |-> TRUE, mf |-> mf, fetch |-> FALSE, err |-> ""]
    ELSE download_result(download_loop(mf, dl, 1))

None == [id |-> 0, kind |-> "none"]

\* What a construction gives: the handle or the error, the model files it
\* leaves, whether it fetched, the route it took.
Built(kind, id, mf, fetch) ==
    [ok |-> TRUE, err |-> "", handle |-> [id |-> id, kind |-> kind],
     mf |-> mf, fetch |-> fetch, route |-> kind]
NotBuilt(err, route, mf, fetch) ==
    [ok |-> FALSE, err |-> err, handle |-> None,
     mf |-> mf, fetch |-> fetch, route |-> route]

\* _create_local_pipeline(KPipeline, KModel)
create_local_pipeline(id, mf, fetch, env) ==
    IF "config" \notin mf THEN NotBuilt("FileNotFoundError", "local", mf, fetch)
    ELSE IF "model" \notin mf THEN NotBuilt("FileNotFoundError", "local", mf, fetch)
    ELSE IF ~env.buildOk THEN NotBuilt("EngineError", "local", mf, fetch)
    ELSE Built("local", id, mf, fetch)

\* _create_remote_pipeline(KPipeline)
create_remote_pipeline(id, mf, fetch, env) ==
    IF ~env.buildOk THEN NotBuilt("EngineError", "remote", mf, fetch)
    ELSE Built("remote", id, mf, fetch)

\* (mutant) _create_pipeline taking the local route whatever the fetch said.
create_pipeline_always_local(id, mf, env) ==
    LET d == IF models_exist(mf)
             THEN [ok |-> TRUE, mf |-> mf, fetch |-> FALSE, err |-> ""]
             ELSE download_models(mf, env.dl)
    IN  create_local_pipeline(id, d.mf \cup {"config", "model"}, d.fetch, env)

\* (mutant) _create_pipeline that lets the error of a failed fetch out.
create_pipeline_surfacing(id, mf, env) ==
    LET d == IF models_exist(mf)
             THEN [ok |-> TRUE, mf |-> mf, fetch |-> FALSE, err |-> ""]
             ELSE download_models(mf, env.dl)
    IN  IF d.ok THEN create_local_pipeline(id, d.mf, d.fetch, env)
        ELSE NotBuilt(d.err, "none", d.mf, d.fetch)

\* _create_pipeline(): env.dl is what the three fetches answer, env.buildOk
\* whether the engine's constructors (KModel, KPipeline) return.  The kokoro
\* package is installed: its import succeeds.
create_pipeline(id, mf, env) ==
    LET d == IF models_exist(mf)
             THEN [ok |-> TRUE, mf |-> mf, fetch |-> FALSE, err |-> ""]
             ELSE download_models(mf, env.dl)
        use_local == models_exist(mf) \/ d.ok
    IN  IF use_local THEN create_local_pipeline(id, d.mf, d.fetch, env)
        ELSE create_remote_pipeline(id, d.mf, d.fetch, env)

\* (mutant) get() that never stores what it built.
factory_get_nocache(pl, nid, mf, env) ==
    LET c == create_pipeline(nid, mf, env)
    IN  [ok |-> c.ok, err |-> c.err, handle |-> c.handle, pl |-> pl,
         nid |-> IF c.ok THEN nid + 1 ELSE nid,
         mf |-> c.mf, built |-> 1, fetch |-> c.fetch, route |-> c.route]

\* (mutant) get() that stores something although the construction raised.
factory_get_poisoned(pl, nid, mf, env) ==
    IF pl = None
    THEN LET c == create_pipeline(nid, mf, env)
         IN  [ok |-> c.ok, err |-> c.err, handle |-> c.handle,
              pl |-> IF c.ok THEN c.handle ELSE [kind |-> c.route, id |-> nid],
              nid |-> nid + 1,
              mf |-> c.mf, built |-> 1, fetch |-> c.fetch, route |-> c.route]
    ELSE [ok |-> TRUE, err |-> "", handle |-> pl, pl |-> pl, nid |-> nid,
          mf |-> mf, built |-> 0, fetch |-> FALSE, route |-> "none"]

\* PipelineFactory.get() on the cache pl: [ok, err, handle, pl, nid, mf,
\* built, fetch, route]; built counts the runs of _create_pipeline.
factory_get(pl, nid, mf, env) ==
    IF pl = None
    THEN LET c == create_pipeline(nid, mf, env)
         IN  [ok |-> c.ok, err |-> c.err, handle |-> c.handle,
              pl |-> IF c.ok THEN c.handle ELSE pl,
              nid |-> IF c.ok THEN nid + 1 ELSE nid,
              mf |-> c.mf, built |-> 1, fetch |-> c.fetch, route |-> c.route]
    ELSE [ok |-> TRUE, err |-> "", handle |-> pl, pl |-> pl, nid |-> nid,
          mf |-> mf, built |-> 0, fetch |-> FALSE, route |-> "none"]

\* The steps of get() a thread can be interrupted between (pipeline.py
\* 53-55): the test `self._pipeline is None`, the call of
\* _create_pipeline(), the assignment to self._pipeline, and the read of
\* self._pipeline for the return.
get_test(pl) == pl = None
get_assign(pl, built) == built
\* (mutant) get() that returns what it built itself.
get_return_own(pl, built) == IF built # None THEN built ELSE pl
get_return(pl, built) == pl

\* (mutant) reset() that leaves the cache as it is.
factory_reset_keep(pl) == pl

\* PipelineFactory.reset()
factory_reset(pl) == None

\* ----------------------------------------------------------- announcer.py
\* What the attempts to fetch one file do: the first succeeds; the third
\* does; none does; none does for the certificate.
FetchFirst == <<"ok", "ok", "ok">>
FetchThird == <<"ConnectionError", "SSLError", "ok">>
FetchNever == <<"ConnectionError", "ConnectionError", "ConnectionError">>
FetchNoCert == <<"SSLError", "SSLError", "SSLError">>

\* What the surroundings answer when nothing goes wrong.
EnvOk ==
    [dl |-> <<FetchFirst, FetchFirst, FetchFirst>>, buildOk |-> TRUE,
     inferOk |-> TRUE, segs |-> <<<<1>>>>,
     sfOk |-> TRUE, probe |-> "rc0", pydub |-> "ok", tmpOk |-> TRUE,
     enc |-> "rc0", stderr |-> <<>>, patch |-> "none", tmpText |-> PlainTmp]

\* The record of a call: arguments, outcome, and what the call did.
\*   gets     calls of PipelineFactory.get() it made
\*   built    runs of _create_pipeline it caused
\*   invoked  the pipeline object was called, with the text ptext, the
\*            speed and the voice pvoice
\*   trace    the steps of the audio writer, in order
\*   arg, res the argument and the outcome of a call of a plain function
NoCall ==
    [op |-> "none", ok |-> TRUE, err |-> "", msg |-> NoMsg,
     text |-> [isStr |-> TRUE, runs |-> <<>>],
     path |-> [abs |-> TRUE, parts |-> <<>>], fmt |-> {}, rate |-> 0,
     ret |-> <<>>, handle |-> None, audio |-> <<>>, segs |-> <<>>,
     gets |-> 0, built |-> 0, fetch |-> FALSE, route |-> "none",
     hadModels |-> FALSE, invoked |-> FALSE, ptext |-> <<>>,
     speed |-> [num |-> TRUE, float |-> TRUE, nan |-> FALSE, v |-> 0],
     trace |-> <<>>, env |-> EnvOk, arg |-> <<>>, res |-> <<>>,
     voice |-> {}, pvoice |-> {}, sample_rate |-> {}]

\* The command line the process was started with.
CommandLine == <<"app", "--text", "hi">>
\* sys.argv when the patches module has been imported (patches.py 20):
\* sys.argv refers to the list the interpreter made ("start"), and
\* _original_argv to a copy of it ("copy"); "other" is a list other code
\* makes.
ArgvAtImport ==
    [sys |-> "start",
     heap |-> [start |-> CommandLine, copy |-> CommandLine, other |-> <<>>]]
\* No thread is inside get().
Threads == {1, 2}
NoThreads == [t \in Threads |-> [pc |-> "out", built |-> None, ret |-> None]]

\* The state a call works on and leaves: the factory's cache, the next
\* object identity, the model files, the file system.
World(pl, nid, mf, fs) == [pl |-> pl, nid |-> nid, mf |-> mf, fs |-> fs]

\* The loop over what the pipeline yields (announcer.py 113-125): one result
\* is appended per tuple; a tuple is its audio, a sequence of samples.
RECURSIVE collect_results(_, _)
collect_results(yielded, results) ==
    IF yielded = <<>> THEN results
    ELSE collect_results(Tail(yielded), Append(results, Head(yielded)))

\* get_models_dir(): models/ in the bundle when frozen, else in the
\* directory above the package (ProjectRoot).
ProjectRoot == <<Dir("opt"), Dir("ktts")>>
get_models_dir == (IF frozen THEN MEIPASS ELSE ProjectRoot) \o <<Dir("models")>>

\* A voice: a string (read as a path when tested for existence), a Path
\* object, or a tensor.  A bare voice name is a relative path of one name.
StrVoice(path) == [kind |-> "str", path |-> path]
VoiceName(stem) == StrVoice([abs |-> FALSE, parts |-> <<Dir(stem)>>])
TensorVoice == [kind |-> "tensor", path |-> [abs |-> FALSE, parts |-> <<>>]]

\* str.endswith('.pt') on a string whose last name is name.
EndsWithPt(name) ==
    Len(name) >= 2 /\ name[Len(name) - 1] = "." /\ name[Len(name)] = "pt"

\* get_voice_path(voice_name): .pt is added unless the string ends with it;
\* the voices directory joined with the string (an absolute string replaces
\* the directory).
get_voice_path(voice_name) ==
    LET n == Len(voice_name.parts)
        parts == IF n = 0 THEN <<<<".", "pt">>>>
                 ELSE IF EndsWithPt(voice_name.parts[n]) THEN voice_name.parts
                 ELSE [voice_name.parts EXCEPT ![n] = @ \o <<".", "pt">>]
    IN  [abs |-> TRUE,
         parts |-> IF voice_name.abs THEN parts
                   ELSE get_models_dir \o <<Dir("voices")>> \o parts]

\* Path(p).exists() for a path under the models directory: the voice files
\* there are the stems in mf.
VoiceFileExists(p, mf) ==
    \E stem \in mf \ {"config", "model"} :
        p.parts = get_models_dir \o <<Dir("voices"), FileName(stem, "pt")>>

\* (mutant) _resolve_voice that takes the local file whenever it is there.
resolve_voice_eager(voice, mf) ==
    LET resolved == IF voice # {} THEN voice ELSE settings.voice
    IN  IF resolved = {} THEN resolved
        ELSE LET v == CHOOSE x \in resolved : TRUE
             IN  IF v.kind = "str"
                    /\ VoiceFileExists(get_voice_path(v.path), mf)
                 THEN {StrVoice(get_voice_path(v.path))}
                 ELSE resolved

\* KokoroAnnouncer._resolve_voice(voice): voice is {} (None) or {v}; mf are
\* the model files there at the call.
resolve_voice(voice, mf) ==
    LET resolved == IF voice # {} THEN voice ELSE settings.voice
    IN  IF resolved = {} THEN resolved
        ELSE LET v == CHOOSE x \in resolved : TRUE
             IN  IF v.kind = "str" /\ models_exist(mf)
                    /\ ~PathExists(v.path)
                    /\ VoiceFileExists(get_voice_path(v.path), mf)
                 THEN {StrVoice(get_voice_path(v.path))}
                 ELSE resolved

\* synthesize_segments from the call of the pipeline on (announcer.py
\* 109-127): g is what PipelineFactory.get() gave, c0 the call so far.
segments_run(c0, ptext, pspeed, g, w, env) ==
    LET w1 == [w EXCEPT !.pl = g.pl, !.nid = g.nid, !.mf = g.mf]
        c1 == [c0 EXCEPT !.gets = 1, !.built = g.built, !.fetch = g.fetch,
                         !.route = g.route, !.handle = g.handle]
    IN  IF ~g.ok
        THEN [c |-> [c1 EXCEPT !.ok = FALSE, !.err = g.err], w |-> w1]
        ELSE IF ~env.inferOk
        THEN [c |-> [c1 EXCEPT !.invoked = TRUE, !.speed = pspeed,
                               !.ptext = ptext, !.ok = FALSE,
                               !.pvoice = resolve_voice(c0.voice, g.mf),
                               !.err = "EngineError"],
              w |-> w1]
        ELSE [c |-> [c1 EXCEPT !.invoked = TRUE, !.speed = pspeed,
                               !.ptext = ptext,
                               !.pvoice = resolve_voice(c0.voice, g.mf),
                               !.segs = collect_results(env.segs, <<>>)],
              w |-> w1]

\* synthesize_segments once the text and the speed went through their
\* validators (announcer.py 103-109): vt and vs are the validators' outcomes.
segments_checked(c0, vt, vs, w, env) ==
    IF ~vt.ok THEN [c |-> [c0 EXCEPT !.ok = FALSE, !.err = vt.err], w |-> w]
    ELSE IF ~vs.ok THEN [c |-> [c0 EXCEPT !.ok = FALSE, !.err = vs.err], w |-> w]
    ELSE segments_run(c0, vt.v, vs.v, factory_get(w.pl, w.nid, w.mf, env), w, env)

\* KokoroAnnouncer.synthesize_segments(text, voice=..., speed=...): [c, w],
\* the call record and the world it leaves.  voice and speed are {} (None)
\* or {x}.
synthesize_segments(text, voice, speed, w, env) ==
    segments_checked(
        [NoCall EXCEPT !.op = "synthesize_segments", !.text = text,
                       !.voice = voice, !.arg = speed,
                       !.env = env, !.hadModels = models_exist(w.mf)],
        validate_text(text),
        IF speed # {} THEN validate_speed(CHOOSE x \in speed : TRUE)
        ELSE Ok(settings.speed),
        w, env)

\* (mutant) concatenation that puts each later segment in front.
RECURSIVE ConcatReversed(_)
ConcatReversed(segs) ==
    IF segs = <<>> THEN <<>> ELSE ConcatReversed(Tail(segs)) \o Head(segs)

\* numpy.concatenate over the segments' audio, in order.
RECURSIVE Concat(_)
Concat(segs) == IF segs = <<>> THEN <<>> ELSE Head(segs) \o Concat(Tail(segs))

\* synthesize from the segments on (announcer.py 156-160).
synthesize_join(r) ==
    IF ~r.c.ok THEN [c |-> [r.c EXCEPT !.op = "synthesize"], w |-> r.w]
    ELSE IF r.c.segs = <<>>
    THEN [c |-> [r.c EXCEPT !.op = "synthesize", !.audio = <<>>], w |-> r.w]
    ELSE [c |-> [r.c EXCEPT !.op = "synthesize", !.audio = Concat(r.c.segs)],
          w |-> r.w]

\* KokoroAnnouncer.synthesize(text, voice=..., speed=...)
synthesize(text, voice, speed, w, env) ==
    synthesize_join(synthesize_segments(text, voice, speed, w, env))

\* synthesize_to_file after write_audio (announcer.py 216-221): c1 is the
\* call so far, a what the writer gave.
to_file_written(c1, w, a) ==
    [c |-> [c1 EXCEPT !.ok = a.ok, !.err = a.err, !.msg = a.msg,
                      !.ret = a.ret, !.trace = a.trace],
     w |-> [w EXCEPT !.fs = a.fs]]

\* (mutant) synthesize_to_file that writes whatever the synthesis gave.
to_file_write_always(c0, path, fmt, r, env) ==
    to_file_written(
        [r.c EXCEPT !.op = c0.op, !.text = c0.text, !.path = c0.path,
                    !.fmt = c0.fmt, !.rate = c0.rate,
                    !.sample_rate = c0.sample_rate, !.ok = TRUE],
        r.w, write_audio(path, fmt, r.w.fs, env))

\* synthesize_to_file from the synthesis on (announcer.py 208-221): r is
\* what synthesize gave.
to_file_write(c0, path, fmt, r, env) ==
    IF ~r.c.ok
    THEN [c |-> [r.c EXCEPT !.op = c0.op, !.text = c0.text, !.path = c0.path,
                            !.fmt = c0.fmt, !.rate = c0.rate,
                            !.sample_rate = c0.sample_rate],
          w |-> r.w]
    ELSE to_file_written(
             [r.c EXCEPT !.op = c0.op, !.text = c0.text, !.path = c0.path,
                         !.fmt = c0.fmt, !.rate = c0.rate,
                         !.sample_rate = c0.sample_rate],
             r.w, write_audio(path, fmt, r.w.fs, env))

\* (mutant) synthesize_to_file that goes on whatever the path check said.
to_file_unchecked(c0, text, speed, fmt, vp, vr, vf, w, env) ==
    IF ~vr.ok THEN [c |-> [c0 EXCEPT !.ok = FALSE, !.err = vr.err], w |-> w]
    ELSE IF ~vf.ok THEN [c |-> [c0 EXCEPT !.ok = FALSE, !.err = vf.err], w |-> w]
    ELSE to_file_write(c0, vp.v, IF fmt \in {{}, {""}} THEN fmt ELSE {vf.v},
                       synthesize(text, c0.voice, speed, w, env), env)

\* synthesize_to_file once the path, the sample rate and the format went
\* through their validators (announcer.py 197-205).
to_file_checked(c0, text, speed, fmt, vp, vr, vf, w, env) ==
    IF ~vp.ok THEN [c |-> [c0 EXCEPT !.ok = FALSE, !.err = vp.err], w |-> w]
    ELSE IF ~vr.ok THEN [c |-> [c0 EXCEPT !.ok = FALSE, !.err = vr.err], w |-> w]
    ELSE IF ~vf.ok THEN [c |-> [c0 EXCEPT !.ok = FALSE, !.err = vf.err], w |-> w]
    ELSE to_file_write(c0, vp.v, IF fmt \in {{}, {""}} THEN fmt ELSE {vf.v},
                       synthesize(text, c0.voice, speed, w, env), env)

\* `sample_rate or self.settings.sample_rate`
RateOr(sample_rate) ==
    IF sample_rate = {} \/ sample_rate = {0} THEN settings.sample_rate
    ELSE CHOOSE x \in sample_rate : TRUE

\* KokoroAnnouncer.synthesize_to_file(text, out_path, voice=..., speed=...,
\* sample_rate=..., format=...): voice, sample_rate and format are {} or
\* {x}; an empty format string counts as none given (`if format:`).
synthesize_to_file(text, out_path, voice, speed, sample_rate, format, w, env) ==
    to_file_checked(
        [NoCall EXCEPT !.op = "synthesize_to_file", !.text = text,
                       !.voice = voice, !.arg = speed,
                       !.sample_rate = sample_rate,
                       !.path = out_path, !.fmt = format, !.env = env,
                       !.rate = RateOr(sample_rate),
                       !.hadModels = models_exist(w.mf)],
        text, speed, format,
        validate_output_path(out_path),
        validate_sample_rate(RateOr(sample_rate)),
        IF format \in {{}, {""}} THEN Ok("")
        ELSE validate_output_format(CHOOSE x \in format : TRUE),
        w, env)

\* ------------------------------------------------ app.py, __main__.py
\* How a run of main ends: by `return n`, by SystemExit(2) out of
\* parser.error, or by an exception nothing in main catches; and what it
\* has printed on the error stream.
MainEnd(c, how, stderr, w) ==
    [c |-> [c EXCEPT !.res = [end |-> how, stderr |-> stderr]],
     w |-> [w EXCEPT !.pl = None]]
\* `not args.text`: no --text, or an empty one.
NoText(text) == text = {} \/ \A t \in text : t.runs = <<>>

\* main of app.py after synthesize_to_file (273-282): r is what it gave.
app_main_done(a, r) ==
    IF r.c.ok
    THEN MainEnd([r.c EXCEPT !.op = "app.main", !.arg = a], "return 0", {}, r.w)
    ELSE MainEnd([r.c EXCEPT !.op = "app.main", !.arg = a], "return 1",
                 {"[ERROR]", "traceback"}, r.w)

\* main of app.py from the test of the text on (255-282).  The module has
\* patched subprocess.run when it was loaded (101-119).
app_main_text(a, text, w, env) ==
    IF text.runs = <<>> \/ Strip(text.runs) = <<>>
    THEN MainEnd([NoCall EXCEPT !.op = "app.main", !.arg = a, !.ok = FALSE],
                 "return 1", {"[ERROR]"}, w)
    ELSE app_main_done(a, synthesize_to_file(text, a.out, {}, {}, {}, {}, w,
                                             [env EXCEPT !.patch = "app"]))

\* main() of app.py: a is what argparse made of the command line: list
\* ("none", "voices", "languages"), text ({} or {t}), file ({} or
\* {[read, text]}, read being what read_text does), out.
app_main(a, w, env) ==
    IF a.list # "none"
    THEN MainEnd([NoCall EXCEPT !.op = "app.main", !.arg = a], "return 0", {}, w)
    ELSE IF NoText(a.text) /\ a.file = {}
    THEN MainEnd([NoCall EXCEPT !.op = "app.main", !.arg = a, !.ok = FALSE],
                 "SystemExit 2", {"usage"}, w)
    ELSE IF ~NoText(a.text)
    THEN app_main_text(a, CHOOSE t \in a.text : TRUE, w, env)
    ELSE IF \E f \in a.file : f.read # "ok"
    THEN MainEnd([NoCall EXCEPT !.op = "app.main", !.arg = a, !.ok = FALSE],
                 "return 1", {"[ERROR]"}, w)
    ELSE app_main_text(a, (CHOOSE f \in a.file : TRUE).text, w, env)

\* main of __main__.py after synthesize_to_file (79-86): parser.error
\* prints the usage and raises SystemExit(2).
module_main_done(a, r) ==
    IF r.c.ok
    THEN MainEnd([r.c EXCEPT !.op = "__main__.main", !.arg = a], "return 0", {},
                 r.w)
    ELSE MainEnd([r.c EXCEPT !.op = "__main__.main", !.arg = a],
                 "SystemExit 2", {"usage"}, r.w)

\* main() of __main__.py: argparse requires one of --text and --text-file;
\* the file is read outside the try.
module_main(a, w, env) ==
    IF a.file # {} /\ \E f \in a.file : f.read # "ok"
    THEN MainEnd([NoCall EXCEPT !.op = "__main__.main", !.arg = a, !.ok = FALSE],
                 "uncaught", {"traceback"}, w)
    ELSE module_main_done(a,
             synthesize_to_file(
                 IF a.file # {} THEN (CHOOSE f \in a.file : TRUE).text
                 ELSE CHOOSE t \in a.text : TRUE,
                 a.out, {}, {}, {}, {}, w, env))

\* ------------------------------------------------------------------ inputs
Str(runs) == [isStr |-> TRUE, runs |-> runs]
Run(ws, n) == [ws |-> ws, n |-> n]
Rel(parts) == [abs |-> FALSE, parts |-> parts]
DEFAULT_VOICE == VoiceName("af_heart")
DefaultSettings == [speed |-> [num |-> TRUE, float |-> TRUE, nan |-> FALSE,
                              v |-> DEFAULT_SPEED],
                    sample_rate |-> DEFAULT_SAMPLE_RATE,
                    voice |-> {DEFAULT_VOICE}]

\* The directories and files of the machine before the program runs.
BaseDirs ==
    Prefixes(HomeDir \o <<Dir("a"), Dir("b")>>)
    \cup Prefixes(<<Dir("srv"), Dir("w"), Dir("run")>>)
    \cup Prefixes(SymlinkTo) \cup Prefixes(MEIPASS) \cup {<<Dir("etc")>>}
BaseFiles ==
    {[path |-> <<Dir("etc"), Dir("passwd")>>, kind |-> "other"],
     [path |-> <<Dir("srv"), Dir("w"), Dir("run"), Dir("am_adam")>>,
      kind |-> "other"]}

\* What the surroundings answer to a pipeline construction.
DlFail(i) == [j \in 1..3 |-> IF j = i THEN FetchNever ELSE FetchFirst]
DlNoCert(i) == [j \in 1..3 |-> IF j = i THEN FetchNoCert ELSE FetchThird]
GetEnvs ==
    {EnvOk, [EnvOk EXCEPT !.buildOk = FALSE],
     [EnvOk EXCEPT !.dl = <<FetchThird, FetchFirst, FetchThird>>]}
    \cup {[EnvOk EXCEPT !.dl = DlFail(i)] : i \in 1..3}
    \cup {[EnvOk EXCEPT !.dl = DlFail(i), !.buildOk = FALSE] : i \in 1..3}
    \cup {[EnvOk EXCEPT !.dl = DlNoCert(i)] : i \in 1..3}

\* ----------------------------------------------------------------- actions
\* The history of constructions since the last reset(), after a call that
\* made c.gets calls of get().
Track(c) ==
    /\ builds' = builds + c.built
    /\ okBuilds' = okBuilds + (IF c.built = 1 /\ c.handle # None THEN 1 ELSE 0)
    /\ first' = IF first = None /\ c.gets = 1 THEN c.handle ELSE first

\* A call is made when the caller holds no result; a construction is made
\* only while the model's counters have room.
Idle == last.op = "none"
Room == pipeline # None \/ (nextId <= MaxIds /\ builds < MaxBuilds)

\* PipelineFactory.get()
Get ==
    /\ Idle /\ Room
    /\ \E env \in GetEnvs :
         LET g == factory_get(pipeline, nextId, modelFiles, env)
             c == [NoCall EXCEPT !.op = "get", !.ok = g.ok, !.err = g.err,
                                 !.handle = g.handle, !.gets = 1,
                                 !.built = g.built, !.fetch = g.fetch,
                                 !.route = g.route, !.env = env,
                                 !.hadModels = models_exist(modelFiles)]
         IN  /\ pipeline' = g.pl
             /\ nextId' = g.nid
             /\ modelFiles' = g.mf
             /\ last' = c
             /\ Track(c)
    /\ UNCHANGED <<cwd, frozen, dirs, files, temps, settings, prev, argv, threads>>

\* PipelineFactory.reset()
Reset ==
    /\ Idle
    /\ pipeline' = factory_reset(pipeline)
    /\ builds' = 0 /\ okBuilds' = 0 /\ first' = None
    /\ last' = [NoCall EXCEPT !.op = "reset", !.hadModels = models_exist(modelFiles)]
    /\ UNCHANGED <<cwd, frozen, dirs, files, temps, modelFiles, nextId, settings, prev, argv, threads>>

\* The caller is done with the result of the last call.
Return ==
    /\ ~Idle
    /\ last' = NoCall
    /\ UNCHANGED <<cwd, frozen, dirs, files, temps, modelFiles, pipeline,
                   nextId, builds, okBuilds, first, settings, prev, argv, threads>>

\* Arguments of the announcer's calls.
TextEmpty == Str(<<>>)
TextBlank == Str(<<Run(TRUE, 2)>>)
TextHi == Str(<<Run(FALSE, 2)>>)
TextPadded == Str(<<Run(TRUE, 1), Run(FALSE, 2), Run(TRUE, 1)>>)
Texts == {TextEmpty, TextBlank, TextHi, TextPadded}
Speed(v) == [num |-> TRUE, float |-> TRUE, nan |-> FALSE, v |-> v]
NaN == [num |-> TRUE, float |-> TRUE, nan |-> TRUE, v |-> 0]
Speeds == {{}, {Speed(150)}, {Speed(500)}, {NaN}}
OutWav == Rel(<<FileName("out", "wav")>>)
Passwd == Rel(<<DotDot, DotDot, Dir("etc"), Dir("passwd")>>)
SubMp3 == Rel(<<Dir("sub"), FileName("a", "Mp3")>>)
NoExt == Rel(<<Dir("out")>>)
OutPaths == {OutWav, Passwd, SubMp3, NoExt}
Rates == {{}, {44100}, {12345}, {0}}
Formats == {{}, {"wav"}, {"MP3"}, {"ogg"}}
Args(text, path, speed, rate, fmt) ==
    [text |-> text, path |-> path, speed |-> speed, rate |-> rate, fmt |-> fmt]
\* One argument, or the path and the format, away from a plain call.
FileArgs ==
    {Args(t, OutWav, {}, {}, {}) : t \in Texts}
    \cup {Args(TextHi, OutWav, sp, {}, {}) : sp \in Speeds}
    \cup {Args(TextHi, OutWav, {}, r, {}) : r \in Rates}
    \cup {Args(TextHi, OutWav, {}, {}, f) : f \in Formats}
    \cup {Args(TextHi, q, {}, {}, f) : q \in OutPaths, f \in {{}, {"wav"}}}

\* Voices handed to a call: none, names with and without a local file, a
\* name that already ends in .pt, the path of an existing file, a tensor.
Voices ==
    {{}, {VoiceName("af_heart")}, {VoiceName("am_adam")}, {VoiceName("zz_none")},
     {StrVoice(Rel(<<FileName("af_heart", "pt")>>))},
     {StrVoice(AbsPath(<<Dir("etc"), Dir("passwd")>>))}, {TensorVoice}}
SegArgs(text, voice, speed) == [text |-> text, voice |-> voice, speed |-> speed]
\* One argument away from a plain call, and the texts with every speed.
SegCalls ==
    {SegArgs(t, {}, sp) : t \in Texts, sp \in Speeds}
    \cup {SegArgs(TextHi, v, {}) : v \in Voices}

\* What the surroundings answer to the engine and to the audio writer.
ByteSeqs == UNION {[1..n -> {65, 255}] : n \in 0..MaxStderr}
InferEnvs ==
    {EnvOk, [EnvOk EXCEPT !.buildOk = FALSE], [EnvOk EXCEPT !.dl = DlFail(2)],
     [EnvOk EXCEPT !.inferOk = FALSE], [EnvOk EXCEPT !.segs = <<>>],
     [EnvOk EXCEPT !.segs = <<<<1, 2>>, <<3>>>>],
     [EnvOk EXCEPT !.segs = <<<<1>>, <<>>, <<2, 3>>>>]}
WriteEnvs ==
    {EnvOk, [EnvOk EXCEPT !.sfOk = FALSE], [EnvOk EXCEPT !.tmpOk = FALSE],
     [EnvOk EXCEPT !.enc = "timeout"], [EnvOk EXCEPT !.enc = "notfound"]}
    \cup {[EnvOk EXCEPT !.enc = "rc1", !.stderr = b] : b \in ByteSeqs}
    \cup {[EnvOk EXCEPT !.probe = pr, !.pydub = py] :
              pr \in {"rc1", "timeout", "notfound"},
              py \in {"absent", "ok", "fails"}}

\* The answers tried under the announcer's synthesize_to_file.
FileEnvs ==
    InferEnvs
    \cup {[EnvOk EXCEPT !.sfOk = FALSE],
          [EnvOk EXCEPT !.enc = "rc1"]}
    \cup {[EnvOk EXCEPT !.probe = pr, !.pydub = "absent"] :
              pr \in {"rc1", "timeout", "notfound"}}

\* The world a call of the announcer works on.
Now == World(pipeline, nextId, modelFiles,
             [dirs |-> dirs, files |-> files, temps |-> temps])

\* The outcome r = [c, w] of a call becomes the state.
Becomes(r) ==
    /\ pipeline' = r.w.pl
    /\ nextId' = r.w.nid
    /\ modelFiles' = r.w.mf
    /\ dirs' = r.w.fs.dirs
    /\ files' = r.w.fs.files
    /\ temps' = r.w.fs.temps
    /\ last' = r.c
    /\ Track(r.c)
    /\ UNCHANGED <<cwd, frozen, settings, prev, argv, threads>>

\* KokoroAnnouncer.synthesize_segments
SynthesizeSegments ==
    /\ Idle /\ Room
    /\ \E a \in SegCalls, env \in InferEnvs :
         Becomes(synthesize_segments(a.text, a.voice, a.speed, Now, env))

\* KokoroAnnouncer.synthesize
Synthesize ==
    /\ Idle /\ Room
    /\ \E a \in SegCalls, env \in InferEnvs :
         Becomes(synthesize(a.text, a.voice, a.speed, Now, env))

\* KokoroAnnouncer.synthesize_to_file
SynthesizeToFile ==
    /\ Idle /\ Room
    /\ \E a \in FileArgs, env \in FileEnvs :
         Becomes(synthesize_to_file(a.text, a.path, {}, a.speed, a.rate,
                                    a.fmt, Now, env))

\* ---------------------------------------------- the factory on its own
InitFactory ==
    /\ cwd = HomeDir /\ frozen = FALSE
    /\ dirs = BaseDirs /\ files = BaseFiles /\ temps = {}
    /\ modelFiles \in SUBSET {RequiredFiles[i] : i \in 1..3}
    /\ pipeline = None /\ nextId = 1
    /\ builds = 0 /\ okBuilds = 0 /\ first = None
    /\ settings = DefaultSettings
    /\ last = NoCall /\ prev = NoCall /\ argv = ArgvAtImport
    /\ threads = NoThreads

NextFactory == Get \/ Reset \/ Return

SpecFactory == InitFactory /\ [][NextFactory]_vars

\* ------------------------------------------------------- the announcer
Cwds == {HomeDir, HomeDir \o <<Dir("a"), Dir("b")>>,
         <<Dir("srv"), Dir("w"), Dir("run")>>}
AllModels == {RequiredFiles[i] : i \in 1..3}

\* The settings an announcer is made with, KokoroSettings validating
\* nothing: the defaults, a speed of 5.0, no voice, another voice.
OtherSettings ==
    {[DefaultSettings EXCEPT !.speed = Speed(500)],
     [DefaultSettings EXCEPT !.voice = {}],
     [DefaultSettings EXCEPT !.voice = {VoiceName("am_adam")}]}

\* Where the program starts: working directory, model files, settings.
Installs ==
    {[cwd |-> c, mf |-> m, settings |-> DefaultSettings] :
        c \in Cwds, m \in {{}, AllModels}}
    \cup {[cwd |-> c, mf |-> AllModels \cup {"am_adam"},
           settings |-> DefaultSettings] :
              c \in {HomeDir, <<Dir("srv"), Dir("w"), Dir("run")>>}}
    \cup {[cwd |-> HomeDir, mf |-> AllModels \cup {"am_adam"}, settings |-> st] :
              st \in OtherSettings}

Init ==
    /\ \E i \in Installs :
          cwd = i.cwd /\ modelFiles = i.mf /\ settings = i.settings
    /\ frozen = FALSE
    /\ dirs = BaseDirs /\ files = BaseFiles /\ temps = {}
    /\ pipeline = None /\ nextId = 1
    /\ builds = 0 /\ okBuilds = 0 /\ first = None
    /\ last = NoCall /\ prev = NoCall /\ argv = ArgvAtImport
    /\ threads = NoThreads

Next == SynthesizeSegments \/ Synthesize \/ SynthesizeToFile \/ Return

Spec == Init /\ [][Next]_vars

\* ------------------------------------------- path validation on its own
\* The names paths are made of: the parent link, directories that exist,
\* one that does not, a file that exists and one that does not.
PathNames == {DotDot, Dir("home"), Dir("u"), Dir("tmp"), Dir("etc"),
              Dir("passwd"), Dir("new"), FileName("out", "wav")}
PathInputs ==
    {[abs |-> a, parts |-> ps] :
        a \in BOOLEAN, ps \in UNION {[1..n -> PathNames] : n \in 0..MaxPathLen}}

\* validate_output_path(path, purpose)
ValidateOutputPath ==
    /\ Idle
    /\ \E path \in PathInputs :
         LET r == validate_output_path(path)
         IN  last' = [NoCall EXCEPT !.op = "validate_output_path", !.path = path,
                                    !.ok = r.ok, !.err = r.err,
                                    !.ret = IF r.ok THEN r.v ELSE <<>>]
    /\ UNCHANGED <<cwd, frozen, dirs, files, temps, modelFiles, pipeline,
                   nextId, builds, okBuilds, first, settings, prev, argv, threads>>

InitPath ==
    /\ cwd \in Cwds \cup {<<>>} /\ frozen \in BOOLEAN
    /\ dirs = BaseDirs
    /\ files \in {BaseFiles,
                  BaseFiles \cup {[path |-> HomeDir \o <<FileName("out", "wav")>>,
                                   kind |-> "soundfile"]}}
    /\ temps = {}
    /\ modelFiles = {RequiredFiles[i] : i \in 1..3}
    /\ pipeline = None /\ nextId = 1
    /\ builds = 0 /\ okBuilds = 0 /\ first = None
    /\ settings = DefaultSettings
    /\ last = NoCall /\ prev = NoCall /\ argv = ArgvAtImport
    /\ threads = NoThreads

NextPath == ValidateOutputPath \/ Return

SpecPath == InitPath /\ [][NextPath]_vars

\* ------------------------------------------ two threads in get()
\* A thread calls get().
Enter(t) ==
    /\ threads[t].pc = "out"
    /\ threads' = [threads EXCEPT ![t] = [pc |-> "test", built |-> None,
                                          ret |-> None]]
    /\ UNCHANGED <<cwd, frozen, dirs, files, temps, modelFiles, pipeline,
                   nextId, builds, okBuilds, first, settings, prev, argv, last>>

\* if self._pipeline is None:
Test(t) ==
    /\ threads[t].pc = "test"
    /\ threads' = [threads EXCEPT ![t].pc = IF get_test(pipeline) THEN "create"
                                            ELSE "return"]
    /\ UNCHANGED <<cwd, frozen, dirs, files, temps, modelFiles, pipeline,
                   nextId, builds, okBuilds, first, settings, prev, argv, last>>

\* self._create_pipeline(): the value is the thread's own until assigned.
Create(t) ==
    /\ threads[t].pc = "create"
    /\ nextId <= MaxIds /\ builds < MaxBuilds
    /\ \E env \in {EnvOk, [EnvOk EXCEPT !.buildOk = FALSE]} :
         LET c == create_pipeline(nextId, modelFiles, env)
         IN  /\ threads' = [threads EXCEPT
                              ![t].pc = IF c.ok THEN "assign" ELSE "raised",
                              ![t].built = c.handle]
             /\ nextId' = IF c.ok THEN nextId + 1 ELSE nextId
             /\ modelFiles' = c.mf
             /\ builds' = builds + 1
             /\ okBuilds' = IF c.ok THEN okBuilds + 1 ELSE okBuilds
    /\ UNCHANGED <<cwd, frozen, dirs, files, temps, pipeline, first, settings,
                   prev, argv, last>>

\* self._pipeline = <what _create_pipeline returned>
Assign(t) ==
    /\ threads[t].pc = "assign"
    /\ pipeline' = get_assign(pipeline, threads[t].built)
    /\ threads' = [threads EXCEPT ![t].pc = "return"]
    /\ UNCHANGED <<cwd, frozen, dirs, files, temps, modelFiles, nextId, builds,
                   okBuilds, first, settings, prev, argv, last>>

\* return self._pipeline
ReturnHandle(t) ==
    /\ threads[t].pc = "return"
    /\ threads' = [threads EXCEPT
                     ![t].pc = "done",
                     ![t].ret = get_return(pipeline, threads[t].built)]
    /\ UNCHANGED <<cwd, frozen, dirs, files, temps, modelFiles, pipeline,
                   nextId, builds, okBuilds, first, settings, prev, argv, last>>

\* The caller goes on, with the handle or with the exception.
Leave(t) ==
    /\ threads[t].pc \in {"done", "raised"}
    /\ threads' = [threads EXCEPT ![t] = [pc |-> "out", built |-> None,
                                          ret |-> None]]
    /\ UNCHANGED <<cwd, frozen, dirs, files, temps, modelFiles, pipeline,
                   nextId, builds, okBuilds, first, settings, prev, argv, last>>

NextThreads ==
    \E t \in Threads :
        Enter(t) \/ Test(t) \/ Create(t) \/ Assign(t) \/ ReturnHandle(t)
        \/ Leave(t)

SpecThreads == InitFactory /\ [][NextThreads]_vars

\* ------------------------------------ the patched subprocess.run
TmpTexts == {PlainTmp, <<"/tmp/tmp", "x", "pip", "9_zq", ".wav">>}
OutTexts ==
    {<<"/home/u/", "out", ".mp3">>, <<"/home/u/", "install", "/", "a", ".mp3">>,
     <<"/home/u/", "PIP", "/", "Install", ".mp3">>}
Commands ==
    {<<Word("python"), Word("-m"), Word("pip"), Word("install"),
       Word("en_core_web_sm")>>,
     <<Word("pip"), Word("install"), Word("x")>>,
     <<Word("pip"), Word("list")>>,
     <<Word("git"), Word("status")>>,
     <<Word("ffmpeg"), Word("-version")>>}
    \cup {EncodeCmd(t, o) : t \in TmpTexts, o \in OutTexts}
ArgvValues == {CommandLine, <<"pip", "install", "x">>, CommandLine \o <<"x">>}
SysArgv == argv.heap[argv.sys]

\* subprocess.run(cmd) with one of the two patches installed.
PatchedRun ==
    /\ Idle
    /\ \E patch \in {"patches", "app"}, cmd \in Commands, rc \in {0, 1} :
         LET r == patched_run(patch, cmd, rc, argv)
         IN  /\ argv' = r.argv
             /\ last' = [NoCall EXCEPT !.op = "patched_run",
                                       !.arg = [patch |-> patch, cmd |-> cmd,
                                                rc |-> rc],
                                       !.res = [ran |-> r.ran,
                                                returncode |-> r.returncode]]
    /\ UNCHANGED <<cwd, frozen, dirs, files, temps, modelFiles, pipeline,
                   nextId, builds, okBuilds, first, settings, prev, threads>>

\* Other code assigns a new list to sys.argv.
Reassign ==
    /\ Idle
    /\ \E v \in ArgvValues :
         argv' = [argv EXCEPT !.sys = "other", !.heap.other = v]
    /\ UNCHANGED <<cwd, frozen, dirs, files, temps, modelFiles, pipeline,
                   nextId, builds, okBuilds, first, settings, prev, threads,
                   last>>

\* Other code changes the list sys.argv refers to in place.
Mutate ==
    /\ Idle
    /\ \E v \in ArgvValues \ {SysArgv} :
         argv' = [argv EXCEPT !.heap[argv.sys] = v]
    /\ UNCHANGED <<cwd, frozen, dirs, files, temps, modelFiles, pipeline,
                   nextId, builds, okBuilds, first, settings, prev, threads,
                   last>>

NextRun == PatchedRun \/ Reassign \/ Mutate \/ Return

SpecRun == InitFactory /\ [][NextRun]_vars

\* ------------------------------------------------ the command line
\* Output paths of a run: a WAV file, an MP3 file, an MP3 file whose name
\* has the word install in it, a path outside the bases, one with no
\* extension.
InstallMp3 == Rel(<<FileName("install", "mp3")>>)
MainOuts == {OutWav, SubMp3, InstallMp3, Passwd, NoExt}
TextFiles ==
    {{[read |-> r, text |-> TextHi]} : r \in {"ok", "OSError", "UnicodeDecodeError"}}
    \cup {{[read |-> "ok", text |-> TextBlank]}}
MainArg(list, text, file, out) ==
    [list |-> list, text |-> text, file |-> file, out |-> out]
\* One text source, as both parsers demand (or none, for app.py).
MainArgs ==
    {MainArg("none", {t}, {}, o) : t \in {TextHi, TextBlank}, o \in MainOuts}
    \cup {MainArg("none", {}, f, OutWav) : f \in TextFiles}
AppArgs ==
    MainArgs
    \cup {MainArg(l, {}, {}, OutWav) : l \in {"voices", "languages", "none"}}
    \cup {MainArg("none", {TextEmpty}, {}, OutWav)}
MainEnvs ==
    {EnvOk, [EnvOk EXCEPT !.buildOk = FALSE], [EnvOk EXCEPT !.inferOk = FALSE],
     [EnvOk EXCEPT !.sfOk = FALSE], [EnvOk EXCEPT !.enc = "rc1"],
     [EnvOk EXCEPT !.probe = "notfound", !.pydub = "absent"]}
\* Every run is a process of its own: the factory's cache starts empty.
Fresh == World(None, nextId, modelFiles,
               [dirs |-> dirs, files |-> files, temps |-> temps])

\* A run of src/app.py
AppMain ==
    /\ Idle /\ Room
    /\ \E a \in AppArgs, env \in MainEnvs : Becomes(app_main(a, Fresh, env))

\* A run of python -m kokoro_announce
ModuleMain ==
    /\ Idle /\ Room
    /\ \E a \in MainArgs \cup {MainArg("none", {TextEmpty}, {}, OutWav)},
          env \in MainEnvs :
         Becomes(module_main(a, Fresh, env))

NextMain == AppMain \/ ModuleMain \/ Return

SpecMain == InitFactory /\ [][NextMain]_vars

\* ---------------------------------------------- path safety on its own
\* Paths asked about: in and under a working directory, relative ones,
\* one through the /tmp link, some outside every base.
SafePaths ==
    {AbsPath(<<Dir("srv"), Dir("w"), Dir("run"), FileName("out", "wav")>>),
     AbsPath(<<Dir("srv"), Dir("w")>>),
     AbsPath(HomeDir \o <<Dir("a"), FileName("out", "wav")>>),
     AbsPath(<<Dir("tmp"), Dir("new"), FileName("out", "wav")>>),
     AbsPath(<<Dir("etc"), Dir("passwd")>>),
     OutWav, Passwd, Rel(<<DotDot, FileName("out", "wav")>>)}

\* is_path_safe(path, allow_creation); the call before it is kept in prev.
IsPathSafe ==
    /\ \E path \in SafePaths, allow_creation \in BOOLEAN :
         last' = [NoCall EXCEPT !.op = "is_path_safe", !.path = path,
                                !.arg = <<allow_creation, cwd>>,
                                !.ok = is_path_safe(path, allow_creation)]
    /\ prev' = last
    /\ UNCHANGED <<cwd, frozen, dirs, files, temps, modelFiles, pipeline,
                   nextId, builds, okBuilds, first, settings, argv, threads>>

\* The process changes its working directory (what Path.cwd() gives).
Chdir ==
    /\ \E d \in (Cwds \cup {<<>>}) \ {cwd} : cwd' = d
    /\ UNCHANGED <<frozen, dirs, files, temps, modelFiles, pipeline, nextId,
                   builds, okBuilds, first, settings, prev, argv, threads,
                   last>>

NextSafe == IsPathSafe \/ Chdir

SpecSafe == InitPath /\ [][NextSafe]_vars

\* ------------------------------------------- the audio writer on its own
\* Output paths under the home directory: extensions in several cases, none,
\* an unknown one, a hidden file, a missing parent, a file in the way.
AudioPaths ==
    {HomeDir \o <<n>> : n \in {FileName("out", "wav"), FileName("out", "WAV"),
                                FileName("out", "Mp3"), FileName("out", "txt"),
                                Dir("out"), <<".", "wav">>}}
    \cup {HomeDir \o <<Dir("sub"), FileName("a", "mp3")>>,
          <<Dir("etc"), Dir("passwd"), FileName("x", "wav")>>}
AudioCalls ==
    {[path |-> q, fmt |-> {}] : q \in AudioPaths}
    \cup {[path |-> HomeDir \o <<n>>, fmt |-> {f}] :
              n \in {FileName("out", "wav"), Dir("out")},
              f \in {"wav", "mp3", "WAV", "ogg"}}

\* write_audio(audio, path, sample_rate, format)
WriteAudio ==
    /\ Idle
    /\ \E a \in AudioCalls, env \in WriteEnvs :
         LET r == write_audio(a.path, a.fmt,
                              [dirs |-> dirs, files |-> files, temps |-> temps],
                              env)
         IN  /\ dirs' = r.fs.dirs
             /\ files' = r.fs.files
             /\ temps' = r.fs.temps
             /\ last' = [NoCall EXCEPT !.op = "write_audio",
                                       !.path = AbsPath(a.path), !.fmt = a.fmt,
                                       !.ok = r.ok, !.err = r.err, !.msg = r.msg,
                                       !.ret = r.ret, !.trace = r.trace,
                                       !.env = env]
    /\ UNCHANGED <<cwd, frozen, modelFiles, pipeline, nextId, builds,
                   okBuilds, first, settings, prev, argv, threads>>

InitAudio ==
    /\ cwd = HomeDir /\ frozen = FALSE
    /\ dirs = BaseDirs /\ files = BaseFiles /\ temps \in {{}, {1}}
    /\ modelFiles = {RequiredFiles[i] : i \in 1..3}
    /\ pipeline = None /\ nextId = 1
    /\ builds = 0 /\ okBuilds = 0 /\ first = None
    /\ settings = DefaultSettings
    /\ last = NoCall /\ prev = NoCall /\ argv = ArgvAtImport
    /\ threads = NoThreads

NextAudio == WriteAudio \/ Return

SpecAudio == InitAudio /\ [][NextAudio]_vars

\* ------------------------------------------ the validators on their own
\* A speed of another type than float: an int, a value that is no number.
IntSpeed(v) == [num |-> TRUE, float |-> FALSE, nan |-> FALSE, v |-> v]
NoNumber == [num |-> FALSE, float |-> FALSE, nan |-> FALSE, v |-> 0]
\* Speeds at and around the ends of the range, far from it, infinite.
Infinity == 1000000
SpeedInputs ==
    {Speed(v) : v \in {-Infinity, -100, 0, MIN_SPEED - 1, MIN_SPEED,
                       MIN_SPEED + 1, DEFAULT_SPEED, MAX_SPEED - 1, MAX_SPEED,
                       MAX_SPEED + 1, Infinity}}
    \cup {IntSpeed(v) : v \in {-100, 0, 100, 200, 400, 500}}
    \cup {NaN, NoNumber}

\* validate_speed(speed)
ValidateSpeed ==
    /\ Idle
    /\ \E speed \in SpeedInputs :
         last' = [NoCall EXCEPT !.op = "validate_speed", !.arg = speed,
                                !.res = validate_speed(speed)]
    /\ UNCHANGED <<cwd, frozen, dirs, files, temps, modelFiles, pipeline,
                   nextId, builds, okBuilds, first, settings, prev, argv, threads>>

\* Sample rates: the valid ones, their neighbours, zero, a negative one.
RateInputs ==
    UNION {{r - 1, r, r + 1} : r \in VALID_SAMPLE_RATES} \cup {0, -24000, 96000}

\* validate_sample_rate(sample_rate)
ValidateSampleRate ==
    /\ Idle
    /\ \E rate \in RateInputs :
         last' = [NoCall EXCEPT !.op = "validate_sample_rate", !.arg = rate,
                                !.res = validate_sample_rate(rate)]
    /\ UNCHANGED <<cwd, frozen, dirs, files, temps, modelFiles, pipeline,
                   nextId, builds, okBuilds, first, settings, prev, argv, threads>>

\* Texts: a core that begins and ends with other than whitespace (or is
\* empty), with whitespace runs put before and after it.
Blanks(n) == [i \in 1..n |-> Run(TRUE, i)]
TextCores ==
    {<<>>, <<Run(FALSE, 1)>>, <<Run(FALSE, 1), Run(TRUE, 1), Run(FALSE, 1)>>,
     <<Run(FALSE, MAX_TEXT_LENGTH - 1)>>, <<Run(FALSE, MAX_TEXT_LENGTH)>>,
     <<Run(FALSE, MAX_TEXT_LENGTH + 1)>>,
     <<Run(FALSE, MAX_TEXT_LENGTH - 2), Run(TRUE, 1), Run(FALSE, 1)>>,
     <<Run(FALSE, MAX_TEXT_LENGTH - 1), Run(TRUE, 1), Run(FALSE, 1)>>}
TextInputs ==
    {[isStr |-> TRUE, runs |-> Blanks(l) \o core \o Blanks(r), core |-> core] :
        l \in 0..2, r \in 0..2, core \in TextCores}
    \cup {[isStr |-> FALSE, runs |-> <<>>, core |-> <<>>]}

\* validate_text(text)
ValidateText ==
    /\ Idle
    /\ \E text \in TextInputs :
         last' = [NoCall EXCEPT !.op = "validate_text", !.arg = text,
                                !.res = validate_text(text)]
    /\ UNCHANGED <<cwd, frozen, dirs, files, temps, modelFiles, pipeline,
                   nextId, builds, okBuilds, first, settings, prev, argv, threads>>

\* Device strings: raw is the string, norm what it is once lowered and
\* trimmed.
DeviceNorms ==
    VALID_DEVICES \cup {<<>>, <<"cuda", ":", "4">>, <<"gpu">>,
                        <<"cuda", " ", ":", "0">>, <<"cuda", ":">>}
Upper(s) == CASE s = "cpu" -> "CPU" [] s = "cuda" -> "CUDA"
              [] s = "mps" -> "MPS" [] OTHER -> s
DeviceInputs ==
    {{}} \cup
    {{[raw |-> l \o n \o r, norm |-> n]} :
        n \in DeviceNorms, l \in {<<>>, <<" ">>}, r \in {<<>>, <<" ", " ">>}}
    \cup {{[raw |-> <<" ">> \o [i \in 1..Len(n) |-> Upper(n[i])], norm |-> n]} :
              n \in DeviceNorms}

\* validate_device(device)
ValidateDevice ==
    /\ Idle
    /\ \E device \in DeviceInputs :
         last' = [NoCall EXCEPT !.op = "validate_device", !.arg = device,
                                !.res = validate_device({d.raw : d \in device})]
    /\ UNCHANGED <<cwd, frozen, dirs, files, temps, modelFiles, pipeline,
                   nextId, builds, okBuilds, first, settings, prev, argv, threads>>

NextValidators ==
    ValidateSpeed \/ ValidateSampleRate \/ ValidateText \/ ValidateDevice
    \/ Return

SpecValidators == InitAudio /\ [][NextValidators]_vars

\* ------------------------------------------- input paths on their own
\* The names input paths are made of.
InputNames == {DotDot, Dir("home"), Dir("u"), Dir("tmp"), Dir("etc"),
               Dir("passwd"), Dir("new"), FileName("max", "txt"),
               FileName("big", "txt")}
InputPaths ==
    {[abs |-> a, parts |-> ps] :
        a \in BOOLEAN, ps \in UNION {[1..n -> InputNames] : n \in 0..MaxPathLen}}
\* Text files as large as allowed and one byte larger, in the home and in
\* the temp directory and outside every permitted place.
SizedFiles ==
    {[path |-> d \o <<FileName("max", "txt")>>, kind |-> "other",
      size |-> MAX_TEXT_FILE_SIZE] : d \in {HomeDir, SymlinkTo, <<Dir("etc")>>}}
    \cup {[path |-> d \o <<FileName("big", "txt")>>, kind |-> "other",
           size |-> MAX_TEXT_FILE_SIZE + 1] :
              d \in {HomeDir, SymlinkTo, <<Dir("etc")>>}}

\* validate_input_path(path, purpose)
ValidateInputPath ==
    /\ Idle
    /\ \E path \in InputPaths :
         last' = [NoCall EXCEPT !.op = "validate_input_path", !.path = path,
                                !.res = validate_input_path(path)]
    /\ UNCHANGED <<cwd, frozen, dirs, files, temps, modelFiles, pipeline,
                   nextId, builds, okBuilds, first, settings, prev, argv, threads>>

InitInput ==
    /\ cwd \in Cwds \cup {<<>>} /\ frozen \in BOOLEAN
    /\ dirs = BaseDirs
    /\ files = BaseFiles \cup SizedFiles
    /\ temps = {}
    /\ modelFiles = {RequiredFiles[i] : i \in 1..3}
    /\ pipeline = None /\ nextId = 1
    /\ builds = 0 /\ okBuilds = 0 /\ first = None
    /\ settings = DefaultSettings
    /\ last = NoCall /\ prev = NoCall /\ argv = ArgvAtImport
    /\ threads = NoThreads

NextInput == ValidateInputPath \/ Return

SpecInput == InitInput /\ [][NextInput]_vars

\* ------------------------------------------------- the fetch on its own
\* safe_hf_download(repo_id, filename, max_retries)
SafeHfDownload ==
    /\ Idle
    /\ \E max_retries \in 0..MaxRetries,
          outcomes \in [1..MaxRetries -> {"ok", "ConnectionError", "SSLError"}] :
         last' = [NoCall EXCEPT
                    !.op = "safe_hf_download",
                    !.arg = [outcomes |-> outcomes, max_retries |-> max_retries],
                    !.res = safe_hf_download(outcomes, max_retries)]
    /\ UNCHANGED <<cwd, frozen, dirs, files, temps, modelFiles, pipeline,
                   nextId, builds, okBuilds, first, settings, prev, argv, threads>>

NextDownload == SafeHfDownload \/ Return

SpecDownload == InitFactory /\ [][NextDownload]_vars

\* ------------------------------------------------------------------ claims
\* C1 (as stated): in a sequence of get() calls with no reset(), every
\* successful call returns the handle the first successful one returned, and
\* _create_pipeline has run exactly once over the whole sequence.
C1_ExactlyOneConstruction ==
    (last.op = "get" /\ last.ok) => (last.handle = first /\ builds = 1)

\* C1 (amended): with no reset() in between, every successful get() returns
\* the handle of the first successful one, exactly one construction has
\* succeeded, and no construction runs after it: a get() that fails ran a
\* construction and no construction had succeeded before.
C1_SameHandleOneSuccessfulConstruction ==
    last.op = "get" =>
        IF last.ok
        THEN last.handle = first /\ first # None /\ okBuilds = 1
        ELSE last.built = 1 /\ okBuilds = 0 /\ first = None

\* C1 witness: a get() answered from the cache, after a failed and a
\* successful construction.
C1_Witness ==
    last.op = "get" /\ last.ok /\ last.built = 0 /\ builds = 2
    /\ last.handle = first

\* C2: reset() empties the cache without constructing anything and changes
\* nothing when the cache is empty; a get() on the empty cache runs a
\* construction and, when it succeeds, caches the object just built.
C2_ResetForcesRebuild ==
    [][/\ last'.op = "reset" =>
            /\ pipeline' = None /\ last'.built = 0
            /\ nextId' = nextId /\ modelFiles' = modelFiles
            /\ (pipeline = None => pipeline' = pipeline)
       /\ (last'.op = "get" /\ pipeline = None) =>
            /\ last'.built = 1
            /\ last'.ok => /\ pipeline' = last'.handle
                            /\ pipeline'.id = nextId
                            /\ nextId' = nextId + 1]_vars

\* C2 witness: a second object has been built and cached after a reset().
C2_Witness ==
    last.op = "get" /\ last.ok /\ last.built = 1 /\ last.handle.id = 2
    /\ pipeline = last.handle /\ builds = 1

\* The announcer's three synthesis operations.
SynthOps == {"synthesize_segments", "synthesize", "synthesize_to_file"}
\* A text with nothing but whitespace in it (the empty text included).
AllWhitespace(text) == \A i \in 1..Len(text.runs) : text.runs[i].ws
InTrace(step, trace) == \E i \in 1..Len(trace) : trace[i] = step

\* C3: a synthesis call whose text is empty after trimming fails with a
\* ValidationError, makes no call of get(), runs no construction, does not
\* call the pipeline, and leaves the cache and the model files as they were.
C3_EmptyTextRejectedBeforePipeline ==
    [][(last'.op \in SynthOps /\ AllWhitespace(last'.text)) =>
            /\ ~last'.ok /\ last'.err = "ValidationError"
            /\ last'.gets = 0 /\ last'.built = 0 /\ ~last'.invoked
            /\ pipeline' = pipeline /\ nextId' = nextId
            /\ modelFiles' = modelFiles /\ builds' = builds]_vars

\* C3 witness: a text of blanks only has been refused by synthesize while a
\* pipeline was cached, and the cache is still there.
C3_Witness ==
    /\ last.op = "synthesize" /\ last.text = TextBlank
    /\ last.err = "ValidationError" /\ last.gets = 0
    /\ pipeline # None

\* The permitted bases in canonical form: the working directory, the home
\* directory, the place the temp directory really is, and the bundle
\* directory when frozen.
PermittedBases ==
    {cwd, HomeDir, SymlinkTo} \cup (IF frozen THEN {MEIPASS} ELSE {})
UnderBase(p) == \E b \in PermittedBases : IsPrefix(b, p)

\* C4 (as stated): synthesize_to_file with the output path ../../etc/passwd
\* fails with a ValidationError, whatever the working directory, before the
\* pipeline is called and before any step of the writer.
C4_PasswdRejectedWhateverCwd ==
    (last.op = "synthesize_to_file" /\ last.path = Passwd) =>
        /\ ~last.ok /\ last.err = "ValidationError"
        /\ ~last.invoked /\ last.trace = <<>>

\* C4 (amended): synthesize_to_file with the output path ../../etc/passwd
\* fails with a ValidationError whenever that path resolves under none of
\* the permitted bases; then no get() is made, the pipeline is not called,
\* the writer takes no step, and no directory or file is created.
C4_PasswdRejectedOutsideBases ==
    [][(/\ last'.op = "synthesize_to_file" /\ last'.path = Passwd
        /\ ~UnderBase(Resolve(Passwd))) =>
            /\ ~last'.ok /\ last'.err = "ValidationError"
            /\ last'.gets = 0 /\ ~last'.invoked /\ last'.trace = <<>>
            /\ dirs' = dirs /\ files' = files /\ temps' = temps
            /\ pipeline' = pipeline]_vars

\* C4 witness: ../../etc/passwd has been refused from the home directory,
\* where it names the existing file /etc/passwd.
C4_Witness ==
    /\ last.op = "synthesize_to_file" /\ last.path = Passwd
    /\ cwd = HomeDir /\ Resolve(Passwd) \in FilePaths
    /\ last.err = "ValidationError" /\ last.trace = <<>>

ExtIs(path, e) ==
    /\ path.parts # <<>>
    /\ LET n == path.parts[Len(path.parts)]
       IN  Len(n) >= 3 /\ n[Len(n) - 1] = "." /\ Lower(n[Len(n)]) = e
\* The regular file at path comes from one of these writers.
WrittenBy(path, writers) ==
    \E f \in files : f.path = path /\ f.kind \in writers

\* C6 (as stated): write_audio with no format given and an extension that
\* is neither wav nor mp3 writes a WAV file, when nothing in the
\* surroundings fails.
C6_UnknownExtensionDefaultsToWav ==
    (/\ last.op = "write_audio" /\ last.fmt = {} /\ last.env = EnvOk
     /\ ~ExtIs(last.path, "wav") /\ ~ExtIs(last.path, "mp3")
     /\ Parent(last.path.parts) \in BaseDirs) =>
        last.ok /\ WrittenBy(last.path.parts, {"soundfile"})

\* C6 (amended): write_audio with no format given takes the WAV writer for
\* an extension wav and the MP3 writer for an extension mp3, in whatever
\* case; for any other extension and for none it raises a ValueError and
\* writes nothing.
C6_FormatFromExtension ==
    [][(last'.op = "write_audio" /\ last'.fmt = {}) =>
         CASE ExtIs(last'.path, "wav") ->
                /\ last'.trace # <<>> /\ ~InTrace("probe", last'.trace)
                /\ last'.err # "ValueError"
                /\ last'.ok => /\ last'.ret = last'.path.parts
                               /\ InTrace("sf.write", last'.trace)
                               /\ [path |-> last'.ret, kind |-> "soundfile"]
                                      \in files'
           [] ExtIs(last'.path, "mp3") ->
                /\ last'.trace # <<>> /\ ~InTrace("sf.write", last'.trace)
                /\ last'.err # "ValueError"
                /\ last'.ok => /\ last'.ret = last'.path.parts
                               /\ InTrace("probe", last'.trace)
                               /\ \E k \in {"ffmpeg", "pydub"} :
                                     [path |-> last'.ret, kind |-> k] \in files'
           [] OTHER ->
                /\ ~last'.ok /\ last'.err = "ValueError"
                /\ last'.trace = <<>>
                /\ dirs' = dirs /\ files' = files /\ temps' = temps]_vars

\* C6 witness: out.WAV, no format given, has been written by the WAV writer.
C6_Witness ==
    /\ last.op = "write_audio" /\ last.fmt = {} /\ last.ok
    /\ last.path.parts = HomeDir \o <<FileName("out", "WAV")>>
    /\ WrittenBy(last.path.parts, {"soundfile"})

\* C7: when synthesize_to_file reaches the MP3 writer, the encoder probe
\* fails (non-zero exit, timeout, no binary) and the fallback library is
\* absent, the call fails with the RuntimeError that names ffmpeg, and no
\* file is written: the files are those there were before the call.
C7_NoEncoderNoFile ==
    [][(/\ last'.op = "synthesize_to_file"
        /\ InTrace("probe", last'.trace)
        /\ last'.env.probe # "rc0" /\ last'.env.pydub = "absent") =>
            /\ ~last'.ok /\ last'.err = "RuntimeError"
            /\ last'.msg.text = "MP3 encoding requires ffmpeg"
            /\ files' = files /\ temps' = temps]_vars

\* C7 witness: MP3 was asked for by the extension of sub/a.Mp3, the probe
\* timed out, the call ended with the RuntimeError, and no file is at the
\* output path (its directory has been created).
C7_Witness ==
    /\ last.op = "synthesize_to_file" /\ last.path = SubMp3
    /\ last.env.probe = "timeout" /\ last.env.pydub = "absent"
    /\ last.err = "RuntimeError"
    /\ Resolve(SubMp3) \notin FilePaths
    /\ Parent(Resolve(SubMp3)) \in dirs

C9_NonZeroExitCarriesStderr ==
    (last.op = "write_audio" /\ InTrace("ffmpeg", last.trace)) =>
        /\ last.env.enc = "rc1" =>
              /\ ~last.ok /\ last.err = "RuntimeError"
              /\ last.msg.text = "ffmpeg failed: "
              /\ Len(last.msg.diag) = Len(last.env.stderr)
              /\ \A i \in 1..Len(last.env.stderr) :
                    last.msg.diag[i].char = last.env.stderr[i]
        /\ last.ok => last.env.enc = "rc0"

\* C10: a construction fetches exactly when a required artifact is missing;
\* it takes the local route when the artifacts were there or the fetch
\* succeeded, the remote route when the fetch failed.
FetchSucceeds(env) ==
    \A i \in 1..3 : \E k \in 1..DEFAULT_MAX_RETRIES : env.dl[i][k] = "ok"
C10_ConstructionDecision ==
    (last.op = "get" /\ last.built = 1) =>
        /\ last.hadModels => (~last.fetch /\ last.route = "local")
        /\ ~last.hadModels =>
              /\ last.fetch
              /\ last.route = IF FetchSucceeds(last.env) THEN "local" ELSE "remote"
        /\ last.route = "local" => (last.hadModels \/ FetchSucceeds(last.env))

\* C10 witness: a remote handle built after a fetch that failed.
C10_Witness ==
    last.op = "get" /\ last.ok /\ last.route = "remote" /\ last.fetch
    /\ last.handle.kind = "remote"

\* C11: safe_hf_download calls the downloader at most max_retries times,
\* returns the result of the first attempt that succeeds and calls no more,
\* raises the error of the last attempt when max_retries attempts failed
\* (certificate errors like any other), and with max_retries >= 1 never
\* returns without a result.
C11_BoundedRetries ==
    last.op = "safe_hf_download" =>
        LET o == last.arg.outcomes
            n == last.arg.max_retries
            r == last.res
            good == {k \in 1..n : o[k] = "ok"}
        IN  /\ r.calls <= n
            /\ good # {} =>
                  /\ r.ok /\ r.ret \in good /\ \A k \in good : r.ret <= k
                  /\ r.calls = r.ret
            /\ (n >= 1 /\ good = {}) =>
                  /\ ~r.ok /\ r.calls = n
                  /\ r.errAt = n /\ r.err = o[n]
            /\ n >= 1 => ~(r.ok /\ r.ret = 0)

\* C11 witness: a connection error, then two certificate errors; the third
\* attempt's certificate error has been raised after three calls.
C11_Witness ==
    /\ last.op = "safe_hf_download" /\ last.arg.max_retries = 3
    /\ last.arg.outcomes[1] = "ConnectionError"
    /\ ~last.res.ok /\ last.res.err = "SSLError"
    /\ last.res.errAt = 3 /\ last.res.calls = 3

\* Every attempt to fetch some required file fails.
FetchFails(env) ==
    \E i \in 1..3 : \A k \in 1..DEFAULT_MAX_RETRIES : env.dl[i][k] # "ok"
FetchErrors == {"ConnectionError", "SSLError"}

\* C12 (as stated): a get() whose construction fetched, every attempt for
\* some required file failing, raises the fetch error.
C12_FetchErrorSurfaced ==
    (last.op = "get" /\ last.fetch /\ FetchFails(last.env)) =>
        ~last.ok /\ last.err \in FetchErrors

\* C12 (amended): a get() whose construction fetched, every attempt for some
\* required file failing, never raises the fetch error: the construction
\* takes the remote route, and get() returns a remote handle or raises what
\* the remote construction raised.
C12_FetchErrorFallsBackToRemote ==
    (/\ last.op = "get" /\ last.built = 1 /\ ~last.hadModels
     /\ FetchFails(last.env)) =>
        /\ last.fetch /\ last.route = "remote"
        /\ last.err \notin FetchErrors
        /\ last.ok <=> last.env.buildOk
        /\ last.ok => last.handle.kind = "remote" /\ pipeline = last.handle
        /\ ~last.ok => last.err = "EngineError"

\* C12 witness: the certificate was refused at every attempt for the second
\* file, and get() has returned a remote handle.
C12_Witness ==
    /\ last.op = "get" /\ last.env.dl = DlNoCert(2)
    /\ last.ok /\ last.handle.kind = "remote" /\ last.fetch
    /\ "config" \in modelFiles /\ "model" \notin modelFiles

\* The samples of the segments before the k-th.
RECURSIVE SamplesBefore(_, _)
SamplesBefore(segs, k) ==
    IF k <= 1 THEN 0 ELSE Len(segs[k - 1]) + SamplesBefore(segs, k - 1)

\* C13: synthesize returns the segments' samples in the order the pipeline
\* yielded them: as many samples as the segments hold together, the j-th
\* sample of the k-th segment after all samples of the segments before it,
\* and no sample at all for no segment; synthesize_segments returns one
\* result per yielded segment, in the same order.
C13_ConcatenationInYieldOrder ==
    LET y == last.env.segs
    IN  /\ (last.op = "synthesize" /\ last.ok) =>
              /\ Len(last.audio) = SamplesBefore(y, Len(y) + 1)
              /\ \A k \in 1..Len(y) : \A j \in 1..Len(y[k]) :
                    last.audio[SamplesBefore(y, k) + j] = y[k][j]
              /\ y = <<>> => last.audio = <<>>
        /\ (last.op = "synthesize_segments" /\ last.ok) =>
              /\ Len(last.segs) = Len(y)
              /\ \A k \in 1..Len(y) : last.segs[k] = y[k]

\* C13 witness: three segments, the second without samples, have been
\* joined into three samples.
C13_Witness ==
    /\ last.op = "synthesize" /\ last.ok
    /\ last.env.segs = <<<<1>>, <<>>, <<2, 3>>>>
    /\ last.audio = <<1, 2, 3>>

\* The voice a call works with: its override, else the settings' voice.
VoiceAsked(c) == IF c.voice # {} THEN c.voice ELSE settings.voice
\* The voice file of that file name in models/voices, and whether it is
\* there.
LocalVoiceFile(fname) ==
    [abs |-> TRUE, parts |-> get_models_dir \o <<Dir("voices"), fname>>]
HasVoiceFile(fname) ==
    \E stem \in modelFiles \ {"config", "model"} : fname = FileName(stem, "pt")
\* The voice is a string of one name that is not an existing path, and the
\* required model files are there.
BareNameWithModels(v) ==
    /\ v.kind = "str" /\ ~v.path.abs /\ Len(v.path.parts) = 1
    /\ ~PathExists(v.path)
    /\ \A i \in 1..Len(RequiredFiles) : RequiredFiles[i] \in modelFiles

\* C14 (as stated): the pipeline gets the local file models/voices/<name>.pt
\* when the voice asked for is a string <name> that is no existing path, the
\* required model files exist and that file exists; it gets the voice asked
\* for, unchanged, in every other case.
C14_LocalVoiceNameDotPt ==
    last.invoked =>
        LET asked == VoiceAsked(last)
        IN  IF asked = {} THEN last.pvoice = {}
            ELSE LET v == CHOOSE x \in asked : TRUE
                     fname == v.path.parts[1] \o <<".", "pt">>
                 IN  IF BareNameWithModels(v) /\ HasVoiceFile(fname)
                     THEN last.pvoice = {StrVoice(LocalVoiceFile(fname))}
                     ELSE last.pvoice = asked

\* C14 (amended): as stated, the file looked for being <name>.pt, or <name>
\* itself when the string already ends in .pt.
C14_LocalVoicePreferred ==
    last.invoked =>
        LET asked == VoiceAsked(last)
        IN  IF asked = {} THEN last.pvoice = {}
            ELSE LET v == CHOOSE x \in asked : TRUE
                     n == v.path.parts[1]
                     fname == IF Len(n) >= 3 /\ SubSeq(n, Len(n) - 1, Len(n)) = <<".", "pt">>
                              THEN n ELSE n \o <<".", "pt">>
                 IN  IF BareNameWithModels(v) /\ HasVoiceFile(fname)
                     THEN last.pvoice = {StrVoice(LocalVoiceFile(fname))}
                     ELSE last.pvoice = asked

\* C14 witness: no voice given, the settings' af_heart; the model files were
\* fetched by this very call, and the pipeline got the local voice file.
C14_Witness ==
    /\ last.op = "synthesize_segments" /\ last.invoked /\ last.voice = {}
    /\ ~last.hadModels /\ last.fetch
    /\ last.pvoice = {StrVoice(LocalVoiceFile(FileName("af_heart", "pt")))}

\* C15 (as stated): whenever a synthesis call has called the pipeline, the
\* speed it passed is a number from 0.25 to 4.0, whether it came from the
\* call or from the settings.
C15_PipelineSpeedInRange ==
    (last.op \in SynthOps /\ last.invoked) =>
        /\ last.speed.num /\ ~last.speed.nan
        /\ MIN_SPEED <= last.speed.v /\ last.speed.v <= MAX_SPEED


\* C16: validate_speed fails with a ValidationError for every number below
\* MIN_SPEED or above MAX_SPEED and for every value that is no number;
\* a number from MIN_SPEED to MAX_SPEED, both ends included, comes back
\* with the same value, as a float.
C16_ValidateSpeedRange ==
    last.op = "validate_speed" =>
        LET speed == last.arg
        IN  /\ ~speed.num => ~last.res.ok /\ last.res.err = "ValidationError"
            /\ (speed.num /\ ~speed.nan
                   /\ (speed.v < MIN_SPEED \/ speed.v > MAX_SPEED))
                 => ~last.res.ok /\ last.res.err = "ValidationError"
            /\ (speed.num /\ ~speed.nan
                   /\ MIN_SPEED <= speed.v /\ speed.v <= MAX_SPEED)
                 => /\ last.res.ok
                    /\ last.res.v.v = speed.v
                    /\ last.res.v.num /\ last.res.v.float /\ ~last.res.v.nan

\* An int at the upper end of the range has come back as a float.
C16_Witness ==
    /\ last.op = "validate_speed"
    /\ last.arg = IntSpeed(MAX_SPEED)
    /\ last.res.ok /\ last.res.v = Speed(MAX_SPEED)

\* C17: validate_sample_rate fails with a ValidationError for every rate
\* that is not one of 8000, 16000, 22050, 24000, 44100, 48000 and gives
\* back a rate that is one of them unchanged.
C17_ValidateSampleRateSet ==
    last.op = "validate_sample_rate" =>
        IF last.arg \in {8000, 16000, 22050, 24000, 44100, 48000}
        THEN last.res.ok /\ last.res.v = last.arg
        ELSE ~last.res.ok /\ last.res.err = "ValidationError"

\* A rate within the range that is none of the six has been refused.
C17_Witness ==
    /\ last.op = "validate_sample_rate"
    /\ last.arg = 22051
    /\ ~last.res.ok

\* C18: validate_text takes exactly the strings whose trimmed form is 1
\* to MAX_TEXT_LENGTH characters long and gives back the trimmed form;
\* everything else fails with a ValidationError.  The length is that of
\* the trimmed form.
C18_ValidateTextTrimmed ==
    last.op = "validate_text" =>
        LET text == last.arg
            n == TextLen(text.core)
        IN  IF text.isStr /\ 1 <= n /\ n <= MAX_TEXT_LENGTH
            THEN last.res.ok /\ last.res.v = text.core
            ELSE ~last.res.ok /\ last.res.err = "ValidationError"

\* A text longer than the bound only by its surrounding whitespace has
\* been taken and trimmed.
C18_Witness ==
    /\ last.op = "validate_text"
    /\ TextLen(last.arg.core) = MAX_TEXT_LENGTH
    /\ TextLen(last.arg.runs) > MAX_TEXT_LENGTH
    /\ last.res.ok /\ last.res.v = last.arg.core

\* C19: validate_input_path gives back the resolved path only for a path
\* that exists, is a regular file, lies under a permitted base and is at
\* most MAX_TEXT_FILE_SIZE bytes large; otherwise it fails with a
\* ValidationError, that of the first test failing in the order
\* existence, regular file, place, size.
C19_ValidateInputPathOrder ==
    last.op = "validate_input_path" =>
        LET path == last.path
            p == OsWalk(IF path.abs THEN <<>> ELSE cwd, path.parts)
            large == \E f \in files :
                        f.path = p /\ "size" \in DOMAIN f
                                   /\ f.size > 10 * 1024 * 1024
            why == IF p = Missing THEN "file not found"
                   ELSE IF \A f \in files : f.path # p
                        THEN "path is not a file"
                   ELSE IF ~UnderBase(p)
                        THEN "path is outside allowed directories"
                   ELSE IF large THEN "file too large"
                   ELSE ""
        IN  IF why = ""
            THEN last.res.ok /\ last.res.v = p
            ELSE /\ ~last.res.ok /\ last.res.err = "ValidationError"
                 /\ last.res.v = why

\* A file of exactly MAX_TEXT_FILE_SIZE bytes has been taken.
C19_Witness ==
    /\ last.op = "validate_input_path"
    /\ last.res.ok
    /\ \E f \in files : f.path = last.res.v /\ "size" \in DOMAIN f
                          /\ f.size = MAX_TEXT_FILE_SIZE

\* C20: validate_device gives None for None and, for a string whose
\* trimmed lowercase form is one of cpu, mps, cuda, cuda:0 .. cuda:3,
\* that form; every other string fails with a ValidationError.
C20_ValidateDeviceSet ==
    last.op = "validate_device" =>
        IF last.arg = {} THEN last.res.ok /\ last.res.v = {}
        ELSE LET d == CHOOSE d \in last.arg : TRUE
             IN  IF d.norm \in {<<"cpu">>, <<"mps">>, <<"cuda">>,
                                <<"cuda", ":", "0">>, <<"cuda", ":", "1">>,
                                <<"cuda", ":", "2">>, <<"cuda", ":", "3">>}
                 THEN last.res.ok /\ last.res.v = {d.norm}
                 ELSE ~last.res.ok /\ last.res.err = "ValidationError"

\* An upper-case device with whitespace before it has come back trimmed
\* and lowered.
C20_Witness ==
    /\ last.op = "validate_device"
    /\ last.arg = {[raw |-> <<" ", "CUDA", ":", "3">>,
                    norm |-> <<"cuda", ":", "3">>]}
    /\ last.res.ok /\ last.res.v = {<<"cuda", ":", "3">>}


\* What is wrong with the arguments of a synthesize_to_file call c, if
\* anything: the place of the output path, the sample rate, the format
\* given, the format the extension stands for, the text, the speed given.
PathFault(c) == ~UnderBase(Resolve(c.path))
RateFault(c) == c.rate \notin {8000, 16000, 22050, 24000, 44100, 48000}
FormatFault(c) ==
    c.fmt # {} /\ \A f \in c.fmt : StripStr(Lower(f)) \notin {"wav", "mp3"}
ExtensionFault(c) ==
    c.fmt = {} /\ ~ExtIs(c.path, "wav") /\ ~ExtIs(c.path, "mp3")
TextFault(c) ==
    \/ ~c.text.isStr \/ AllWhitespace(c.text)
    \/ TextLen(Strip(c.text.runs)) > MAX_TEXT_LENGTH
SpeedFault(c) ==
    \E sp \in c.arg :
        ~sp.num \/ (~sp.nan /\ (sp.v < MIN_SPEED \/ sp.v > MAX_SPEED))
\* The call was stopped before anything was done: no get(), no
\* construction, no call of the pipeline, no step of the writer, and the
\* cache, the model files and the file system are what they were.
NothingDone ==
    /\ last'.gets = 0 /\ last'.built = 0 /\ ~last'.invoked
    /\ last'.trace = <<>>
    /\ pipeline' = pipeline /\ modelFiles' = modelFiles
    /\ dirs' = dirs /\ files' = files /\ temps' = temps

\* C22: a synthesize_to_file call that fails because of its arguments
\* alone (path outside the bases, sample rate outside the enum, format
\* invalid or not to be had from the extension, text empty or over-long,
\* speed given out of range) fails before the pipeline is constructed or
\* called and before any directory or file is created.
C22_ArgumentFaultsFailEarly ==
    [][(/\ last'.op = "synthesize_to_file"
        /\ \/ PathFault(last') \/ RateFault(last') \/ FormatFault(last')
           \/ ExtensionFault(last') \/ TextFault(last') \/ SpeedFault(last'))
        => ~last'.ok /\ NothingDone]_vars


\* C23: synthesize_to_file given a sample rate that is none of 8000, 16000,
\* 22050, 24000, 44100, 48000 fails with a ValidationError, whatever
\* integer it is, and the rate the audio writer gets is one of the six.
C23_ExplicitRateOutsideEnumFails ==
    last.op = "synthesize_to_file" =>
        /\ (\E r \in last.sample_rate :
                r \notin {8000, 16000, 22050, 24000, 44100, 48000})
             => ~last.ok /\ last.err = "ValidationError"
        /\ last.trace # <<>>
             => last.rate \in {8000, 16000, 22050, 24000, 44100, 48000}


\* C24: when the construction of the pipeline or the inference raises
\* inside synthesize_to_file, the audio writer is not called: no step of
\* it is taken, and the directories, the files and the temporary files
\* are what they were before the call.
C24_NoWriteAfterSynthesisError ==
    [][(/\ last'.op = "synthesize_to_file"
        /\ \/ last'.gets = 1 /\ last'.handle = None
           \/ last'.invoked /\ ~last'.env.inferOk)
        => /\ ~last'.ok
           /\ last'.trace = <<>> /\ last'.ret = <<>>
           /\ dirs' = dirs /\ files' = files /\ temps' = temps]_vars

\* The inference has raised in a call whose output directory did not
\* exist, and it still does not.
C24_Witness ==
    /\ last.op = "synthesize_to_file"
    /\ last.invoked /\ ~last.env.inferOk /\ last.err = "EngineError"
    /\ last.path = SubMp3
    /\ ~PathExists(PathParent(SubMp3))


\* The place of the first step of that name in a trace, 0 when there is
\* none.
FirstAt(step, trace) ==
    IF InTrace(step, trace)
    THEN CHOOSE i \in 1..Len(trace) :
            trace[i] = step /\ \A j \in 1..(i - 1) : trace[j] # step
    ELSE 0
EncoderSteps ==
    {"mktemp", "sf.write tmp", "ffmpeg", "ffmpeg blocked", "unlink tmp"}
FallbackSteps == {"import pydub", "export"}

\* C25: write_mp3 probes for the external encoder before anything else of
\* the two routes; when the probe succeeds only the encoder route is
\* taken, whether it then succeeds or fails, and the fallback library is
\* not tried; the fallback library is tried only when the probe failed.
C25_ProbeDecidesRoute ==
    (last.op = "write_audio" /\ InTrace("probe", last.trace)) =>
        /\ \A i \in 1..Len(last.trace) :
              last.trace[i] \in EncoderSteps \cup FallbackSteps
                  => FirstAt("probe", last.trace) < i
        /\ last.env.probe = "rc0" =>
              /\ \A i \in 1..Len(last.trace) : last.trace[i] \notin FallbackSteps
              /\ InTrace("mktemp", last.trace)
              /\ last.ok => WrittenBy(last.ret, {"ffmpeg"})
        /\ last.env.probe # "rc0" =>
              /\ \A i \in 1..Len(last.trace) : last.trace[i] \notin EncoderSteps
              /\ InTrace("import pydub", last.trace)

\* The encoder was found and then failed while the fallback library was
\* there: the error is the encoder's and the library was not tried.
C25_Witness ==
    /\ last.op = "write_audio"
    /\ last.env.probe = "rc0" /\ last.env.enc = "rc1" /\ last.env.pydub = "ok"
    /\ ~last.ok /\ last.err = "RuntimeError"
    /\ InTrace("ffmpeg", last.trace) /\ ~InTrace("import pydub", last.trace)


\* C26: when the construction raises during get(), the caller gets the
\* error and the cache stays empty; a get() on an empty cache runs the
\* construction (again, after a failure); and the cache holds a handle
\* only if a construction has completed since the last reset().
C26_FailedConstructionNotCached ==
    /\ [](pipeline # None => okBuilds >= 1)
    /\ [][last'.op = "get" =>
            /\ (last'.built = 1 /\ last'.handle = None) =>
                  /\ ~last'.ok /\ last'.err # ""
                  /\ pipeline = None /\ pipeline' = None
            /\ pipeline = None => last'.built = 1
            /\ pipeline # None => last'.built = 0 /\ pipeline' = pipeline]_vars

\* A second get() on the same factory has run the construction again
\* after the first one raised, and raised as well.
C26_Witness ==
    /\ last.op = "get" /\ ~last.ok /\ last.built = 1
    /\ builds = 2 /\ okBuilds = 0 /\ pipeline = None


\* The last two path-safety calls asked the same question.
SameQuestion ==
    /\ last.op = "is_path_safe" /\ prev.op = "is_path_safe"
    /\ last.path = prev.path /\ last.arg[1] = prev.arg[1]

\* C30: the permitted bases are those of the moment of each path-safety
\* call: the verdict of a call is that of the working directory the
\* process is in then; two calls on the same path in the same working
\* directory, the file system being the same, agree.
C30_BasesOfTheMomentOfTheCall ==
    /\ []((SameQuestion /\ last.arg[2] = prev.arg[2]) => last.ok = prev.ok)
    /\ [][(cwd' = cwd /\ last'.op = "is_path_safe") =>
            (last'.ok <=> UnderBase(Resolve(last'.path)))]_vars

\* Two calls on the same path, the working directory having changed in
\* between, have given different verdicts.
C30_Witness ==
    /\ SameQuestion /\ last.arg[2] # prev.arg[2]
    /\ prev.ok /\ ~last.ok


\* The thread has passed the test with the cache empty in its present
\* call of get() and has constructed a pipeline.
Constructed(t) ==
    threads[t].pc \in {"assign", "return", "done"} /\ threads[t].built # None

\* C27: get() takes no lock.  Two threads that both found the cache empty
\* both run the construction: it has then run more than once and the two
\* pipelines are different objects; each caller gets what the cache holds
\* at the moment of its return, so the two can get different handles.
C27_BothThreadsConstruct ==
    /\ []((Constructed(1) /\ Constructed(2)) =>
            /\ builds >= 2
            /\ threads[1].built # threads[2].built)
    /\ [](\A t \in Threads :
            threads[t].pc \in {"create", "assign"} => threads[t].ret = None)
    /\ [][\A t \in Threads :
            (threads[t].pc = "return" /\ threads'[t].pc = "done")
                => threads'[t].ret = pipeline]_vars

\* Both threads found the cache empty, both constructed, and the two
\* calls of get() have returned different handles.
C27_Witness ==
    /\ Constructed(1) /\ Constructed(2)
    /\ threads[1].pc = "done" /\ threads[2].pc = "done"
    /\ threads[1].ret # None /\ threads[2].ret # None
    /\ threads[1].ret # threads[2].ret


\* The command is pip's install: the word pip with the word install
\* after it.
IsPipInstall(cmd) ==
    \E i \in 1..(Len(cmd) - 1) : cmd[i] = Word("pip") /\ cmd[i + 1] = Word("install")

\* C28: the patched subprocess.run gives its made-up result, running
\* nothing, for pip install commands only; every other command, the
\* encoder's probe and its encode command for any temporary and output
\* path among them, is run.
C28_OnlyPipInstallBlocked ==
    last.op = "patched_run" => (~last.res.ran <=> IsPipInstall(last.arg.cmd))

\* C29: after every call of the patched subprocess.run that ran the
\* command, sys.argv is the command line captured at import, whatever
\* was assigned to sys.argv or changed in it between the calls.
C29_ArgvRestoredAfterRun ==
    (last.op = "patched_run" /\ last.res.ran) => SysArgv = CommandLine


MainOps == {"app.main", "__main__.main"}
WriteSteps == {"sf.write", "ffmpeg", "export"}
\* C21: every failure of a run (text file unreadable or not UTF-8, empty
\* text, validation, pipeline, synthesis or write error) is caught in
\* main, which returns a non-zero code after printing an [ERROR] message
\* on the error stream; main returns 0 only when the output file was
\* written or a list mode was asked for.
C21_MainCatchesAndReports ==
    last.op \in MainOps =>
        /\ last.res.end \in {"return 0", "return 1"}
        /\ last.res.end = "return 1" => "[ERROR]" \in last.res.stderr
        /\ last.res.end = "return 0" =>
              \/ last.arg.list # "none"
              \/ \E i \in 1..Len(last.trace) : last.trace[i] \in WriteSteps

====
